---- MODULE Spec2Model ----
(***************************************************************************)
(* univ-fs: the backend-independent file system layer.                     *)
(*                                                                         *)
(* A path string is modelled as the sequence of parts that split("/")      *)
(* yields: "/a/b/" is <<"", "a", "b", "">>, "/" is <<"", "">>, "" is       *)
(* <<"">>.  The part "?" stands for a name holding an illegal character.   *)
(* An optional value (a field that may be undefined, a result that may be  *)
(* null) is a set with at most one element: {} is undefined/null.          *)
(***************************************************************************)
EXTENDS Integers, Sequences, FiniteSets, TLC

VARIABLES store, cfg, last, phase, nOps, stream, tasks

vars == <<store, cfg, last, phase, nOps, stream, tasks>>

----------------------------------------------------------------------------
(* Bounds of the model *)

\* longest file content, in bytes
MaxLen == 2
\* longest path given to normalizePath, in segments between separators
MaxSegs == 4
\* longest path the tree of a walk into itself may grow to, in names
MaxPathLen == 5
\* operations on one stream, its opening included
MaxStreamOps == 4
\* operations issued by the caller in one run
MaxOps == 1

Names == {"a", "b", "c"}
Bytes == {"x", "y"}

----------------------------------------------------------------------------
(* util.ts *)

RECURSIVE PartsFrom(_, _, _)
PartsFrom(path, i, acc) ==
  IF i > Len(path) THEN [err |-> "", parts |-> acc]
  ELSE IF path[i] = ".."
    THEN IF acc = <<>>
           THEN [err |-> "SyntaxError", parts |-> <<>>]
           ELSE PartsFrom(path, i + 1, SubSeq(acc, 1, Len(acc) - 1))
  ELSE IF path[i] = "." \/ path[i] = ""
    THEN PartsFrom(path, i + 1, acc)
  ELSE PartsFrom(path, i + 1, Append(acc, path[i]))

getPathParts(path) == PartsFrom(path, 1, <<>>)

\* a join that leaves a separator at the end
Slashed_trailing(parts) == <<"">> \o parts \o <<"">>

\* "/" + parts.join("/"), as the split form of that string
Slashed(parts) == IF parts = <<>> THEN <<"", "">> ELSE <<"">> \o parts

normalizePath(path) ==
  LET r == getPathParts(path)
  IN  [err |-> r.err, path |-> IF r.err = "" THEN Slashed(r.parts) ELSE <<>>]

getParentPath(path) ==
  LET r == getPathParts(path)
  IN  IF Len(r.parts) <= 1 THEN <<"", "">>
      ELSE Slashed(SubSeq(r.parts, 1, Len(r.parts) - 1))

getName(path) ==
  LET r == getPathParts(path)
  IN  IF Len(r.parts) = 0 THEN "" ELSE r.parts[Len(r.parts)]

joinPaths(path1, path2) ==
  Slashed(getPathParts(path1).parts \o getPathParts(path2).parts)

\* path.endsWith("/")
endsWithSlash(path) == Len(path) >= 2 /\ path[Len(path)] = ""

\* INVALID_CHARS.test(path)
INVALID_CHARS(path) == \E i \in 1..Len(path) : path[i] = "?"

----------------------------------------------------------------------------
(* The backend store *)

Root == <<"", "">>
\* "/", "/a", "/b", "/c", the children of "/a", "/a/a/b" below them, and the
\* places of a copy of "/a" below "/c" (whose parent is absent)
Paths == {Root} \cup {<<"", n>> : n \in Names} \cup {<<"", "a", n>> : n \in Names}
                \cup {<<"", "a", "a", "b">>, <<"", "c", "a">>, <<"", "c", "b">>,
                      <<"", "c", "a", "b">>}

Contents == UNION {[1..n -> Bytes] : n \in 0..MaxLen}

None == [kind |-> "none", data |-> <<>>, modified |-> 0]
Dir == [kind |-> "dir", data |-> <<>>, modified |-> 0]
FileOf(d) == [kind |-> "file", data |-> d, modified |-> 0]

Children(st, path) ==
  {p \in Paths : p # Root /\ getParentPath(p) = path /\ st[p].kind # "none"}

\* The closed error taxonomy; any other thrown value is not a FileSystemError.
Kinds == {"NotFoundError", "NotReadableError", "NoModificationAllowedError",
          "InvalidModificationError", "TypeMismatchError", "PathExistError",
          "SecurityError", "SyntaxError", "NotSupportedError"}

isFileSystemError(e) == e \in Kinds

\* createError({name, ..., e}): an e that is already of the taxonomy keeps its kind
createError(name, e) == IF isFileSystemError(e) THEN e ELSE name

----------------------------------------------------------------------------
(* Backend primitives *)

NoStats == [size |-> {}, modified |-> {}]

\* a backend that answers for a missing entry as for an empty directory
B_head_lenient(st, path, fault) ==
  IF fault THEN [err |-> "NotReadableError", stats |-> {}]
  ELSE IF path \notin Paths \/ st[path].kind \in {"none", "dir"}
    THEN [err |-> "", stats |-> {[size |-> {}, modified |-> {0}]}]
  ELSE [err |-> "",
        stats |-> {[size |-> {Len(st[path].data)}, modified |-> {st[path].modified}]}]

\* NodeFileSystem.stat with convertError: ENOENT is NotFound, any other
\* failure of a read is NotReadable; a directory's Stats carry no size.
B_head(st, path, fault) ==
  IF fault THEN [err |-> "NotReadableError", stats |-> {}]
  ELSE IF path \notin Paths \/ st[path].kind = "none"
    THEN [err |-> "NotFoundError", stats |-> {}]
  ELSE IF st[path].kind = "dir"
    THEN [err |-> "", stats |-> {[size |-> {}, modified |-> {st[path].modified}]}]
  ELSE [err |-> "",
        stats |-> {[size |-> {Len(st[path].data)}, modified |-> {st[path].modified}]}]

\* new NodeFile(this, path) / new NodeDirectory(this, path): no I/O
\* a constructor that hands out the wrong kind of handle
B_getFile_untyped(path) == [kind |-> "dir", path |-> path]
B_getFile(path) == [kind |-> "file", path |-> path]
B_getDirectory(path) == [kind |-> "dir", path |-> path]

\* _toURL(path, isDirectory, options): the URL names what it was asked for
B_toURL(path, isDirectory) == [path |-> path, isDirectory |-> isDirectory]

----------------------------------------------------------------------------
(* AbstractFileSystem *)

\* _handleFileSystemError: push to the caller's list when there is one, else throw
Handled(calls, e, eg) ==
  [calls |-> calls, thrown |-> IF eg THEN "" ELSE e,
   errs |-> IF eg THEN <<e>> ELSE <<>>, ret |-> {}]

Returned(calls, v) == [calls |-> calls, thrown |-> "", errs |-> <<>>, ret |-> {v}]

Thrown(calls, e) == [calls |-> calls, thrown |-> e, errs |-> <<>>, ret |-> {}]

\* _checkPath(path, errors): null with the error pushed, or the normalized path;
\* normalizePath's own SyntaxError is thrown in either case.
checkPath(path, eg) ==
  IF INVALID_CHARS(path) THEN Handled(<<>>, "SyntaxError", eg)
  ELSE LET n == normalizePath(path)
       IN  IF n.err # "" THEN Thrown(<<>>, n.err) ELSE Returned(<<>>, n.path)

\* What a beforeHead hook hands back: null, the Stats of an (empty) file, or
\* the Stats of a directory.
HookStats(b) ==
  IF b = "file" THEN {[size |-> {0}, modified |-> {0}]}
  ELSE IF b = "dir" THEN {[size |-> {}, modified |-> {0}]}
  ELSE {}

Registered(c, ignoreHook, h) == ~ignoreHook /\ h \in c.hooks

\* a check that lets a file pass for a directory
Mismatch_fileOnly(stats, type) == stats.size = {} /\ type = "file"

\* the Stats obtained are not of the requested type
Mismatch(stats, type) ==
  \/ stats.size # {} /\ type = "directory"
  \/ stats.size = {} /\ type = "file"

\* head from the hook on: beforeHead, _head, the type checks, afterHead; what
\* is thrown on the way is caught and handled as NotReadable
headSteps(c, type, opt, eg, env, bh) ==
  LET useB == Registered(c, opt.ignoreHook, "beforeHead")
      useA == Registered(c, opt.ignoreHook, "afterHead")
      c1 == IF useB THEN <<"beforeHead">> ELSE <<>>
      hs == IF useB THEN HookStats(env.before) ELSE {}
      c2 == IF hs = {} THEN Append(c1, "_head") ELSE c1
      c3 == IF useA THEN Append(c2, "afterHead") ELSE c2
      s == CHOOSE x \in (IF hs = {} THEN bh.stats ELSE hs) : TRUE
      fail(calls, e) == Handled(calls, createError("NotReadableError", e), eg)
  IN  IF useB /\ env.before = "throw" THEN fail(c1, "HookError")
      ELSE IF hs = {} /\ bh.err # "" THEN fail(c2, bh.err)
      ELSE IF Mismatch(s, type) THEN fail(c2, "TypeMismatchError")
      ELSE IF useA /\ env.after = "throw" THEN fail(c3, "HookError")
      ELSE Returned(c3, s)

\* head once the path went through _checkPath
headChecked(st, c, type, opt, eg, env, chk) ==
  IF chk.thrown # ""
    THEN Handled(<<>>, createError("NotReadableError", chk.thrown), eg)
  ELSE IF type = "directory" /\ ~c.dirs THEN Returned(<<>>, NoStats)
  ELSE headSteps(c, type, opt, eg, env,
                 B_head(st, CHOOSE p \in chk.ret : TRUE, env.fault))

FsHead(st, c, path, opt, eg, env) ==
  headChecked(st, c,
              IF opt.type = "" /\ endsWithSlash(path) THEN "directory" ELSE opt.type,
              opt, eg, env, checkPath(path, FALSE))

FsGetFile(path, eg) ==
  LET chk == checkPath(path, eg)
  IN  IF chk.ret = {} THEN chk
      ELSE Returned(<<>>, B_getFile(CHOOSE p \in chk.ret : TRUE))

FsGetDirectory(path, eg) ==
  LET chk == checkPath(path, eg)
  IN  IF chk.ret = {} THEN chk
      ELSE Returned(<<>>, B_getDirectory(CHOOSE p \in chk.ret : TRUE))

\* toURL: head with the caller's list, null when it gave none, else _toURL
\* with the caller's path and whether the Stats are a directory's
FsToURL(st, c, path, opt, eg, env, h) ==
  IF h.ret = {} THEN h
  ELSE Returned(Append(h.calls, "_toURL"),
                B_toURL(path, (CHOOSE x \in h.ret : TRUE).size = {}))

----------------------------------------------------------------------------
(* AbstractFile *)

WithStore(r, st) ==
  [calls |-> r.calls, thrown |-> r.thrown, errs |-> r.errs, ret |-> r.ret,
   store |-> st]

\* A Source: a representation tag and the bytes it carries.
Source(type, bytes) == [type |-> type, bytes |-> bytes]

\* JavaScript's !source for a non-null Source: only the empty string is falsy
Falsy(src) == src.type = "Text" /\ src.bytes = <<>>

\* _convert: the converter re-represents the chunk as the requested type
convert(chunk, type) == Source(type, chunk.bytes)

\* The in-memory backend's _write: replaces the content, or extends it on append.
B_write(st, c, path, src, options, fault) ==
  IF fault THEN [err |-> "NativeError", store |-> st]
  ELSE IF c.dirs /\ st[getParentPath(path)].kind # "dir"
    THEN [err |-> "NotFoundError", store |-> st]
  ELSE IF st[path].kind = "dir" THEN [err |-> "NativeError", store |-> st]
  ELSE [err |-> "",
        store |-> [st EXCEPT ![path] =
                     FileOf(IF options.append /\ st[path].kind = "file"
                            THEN st[path].data \o src.bytes ELSE src.bytes)]]

\* The in-memory backend's _getSource: the bytes of the file
B_getSource(st, path, fault) ==
  IF fault THEN [err |-> "NativeError", src |-> {}]
  ELSE IF st[path].kind # "file" THEN [err |-> "NotFoundError", src |-> {}]
  ELSE [err |-> "", src |-> {Source("Uint8Array", st[path].data)}]

\* head() of a File handle
FileHead(st, c, path, henv) ==
  FsHead(st, c, path, [type |-> "file", ignoreHook |-> FALSE], FALSE, henv)

\* What a beforeGet hook hands back: null, the empty string, or a text
HookSource(b) ==
  IF b = "empty" THEN {Source("Text", <<>>)}
  ELSE IF b = "data" THEN {Source("Text", <<"y">>)}
  ELSE {}

getSource(st, c, path, options, env) ==
  LET useB == Registered(c, options.ignoreHook, "beforeGet")
      useA == Registered(c, options.ignoreHook, "afterGet")
      c1 == IF useB THEN <<"beforeGet">> ELSE <<>>
      hs == IF useB THEN HookSource(env.before) ELSE {}
      prim == hs = {} \/ Falsy(CHOOSE x \in hs : TRUE)
      c2 == IF prim THEN Append(c1, "_getSource") ELSE c1
      g == B_getSource(st, path, env.fault)
      c3 == IF useA THEN Append(c2, "afterGet") ELSE c2
  IN  IF useB /\ env.before = "throw" THEN Thrown(c1, "HookError")
      ELSE IF prim /\ g.err # "" THEN Thrown(c2, g.err)
      ELSE Returned(c3, CHOOSE x \in (IF prim THEN g.src ELSE hs) : TRUE)

FileRead(st, c, path, opt, env) ==
  LET type == IF opt.sourceType = "" THEN "Uint8Array" ELSE opt.sourceType
      g == getSource(st, c, path, [ignoreHook |-> FALSE], env)
  IN  IF g.thrown # "" THEN g
      ELSE Returned(g.calls, convert(CHOOSE x \in g.ret : TRUE, type))

\* options that append unless told otherwise
\* options that never append
WriteMode_replacing(opt, create) == [append |-> FALSE, create |-> create]

WriteMode_appending(opt, create) == [append |-> opt.append # "false", create |-> create]

\* { append: options?.append ?? false, create }
WriteMode(opt, create) == [append |-> opt.append = "true", create |-> create]

\* write after its head: create or overwrite, the hooks around _write
writeSteps(st, c, opt, env, h, bName, aName, w) ==
  LET exists == h.thrown = ""
      c1 == IF bName \in c.hooks THEN Append(h.calls, bName) ELSE h.calls
      c2 == Append(c1, "_write")
      c3 == IF aName \in c.hooks THEN Append(c2, aName) ELSE c2
  IN  IF exists /\ opt.create = "true"
        THEN WithStore(Thrown(h.calls, createError("NotReadableError", "PathExistError")), st)
      ELSE IF ~exists /\ h.thrown # "NotFoundError"
        THEN WithStore(Thrown(h.calls, createError("NotReadableError", h.thrown)), st)
      ELSE IF ~exists /\ opt.create = "false"
        THEN WithStore(Thrown(h.calls, createError("NotFoundError", h.thrown)), st)
      ELSE IF bName \in c.hooks /\ env.before = "throw"
        THEN WithStore(Thrown(c1, "HookError"), st)
      ELSE IF bName \in c.hooks /\ env.before = "true"
        THEN WithStore(Returned(c1, "void"), st)
      ELSE IF w.err # "" THEN WithStore(Thrown(c2, w.err), st)
      ELSE WithStore(Returned(c3, "void"), w.store)

\* write once the head has answered: absent means create (the Post hooks),
\* present means overwrite (the Put hooks)
writeHeaded(st, c, path, src, opt, env, h) ==
  writeSteps(st, c, opt, env, h,
             IF h.thrown # "" THEN "beforePost" ELSE "beforePut",
             IF h.thrown # "" THEN "afterPost" ELSE "afterPut",
             B_write(st, c, path, src, WriteMode(opt, h.thrown # ""), env.fault))

FileWrite(st, c, path, src, opt, env) ==
  writeHeaded(st, c, path, src, opt, env, FileHead(st, c, path, env.h))

----------------------------------------------------------------------------
(* AbstractDirectory *)

\* NodeDirectory._list: readdir, each name joined to the directory's path; a
\* failure of the read is NotReadable
B_list(st, path, fault) ==
  IF fault THEN [err |-> "NotReadableError", list |-> {}]
  ELSE [err |-> "", list |-> {Children(st, path)}]

\* the directories above a path
Ancestors(path) == {Root} \cup {SubSeq(path, 1, k) : k \in 2..(Len(path) - 1)}

\* NodeDirectory._mkcol: "options?.recursive || true" makes every mkdir a
\* recursive one, which creates the missing ancestors and accepts a directory
\* that is already there; a file in the way is a failed write
B_mkcol(st, path, fault) ==
  IF fault \/ \E p \in Ancestors(path) \cup {path} : st[p].kind = "file"
    THEN [err |-> "InvalidModificationError", store |-> st]
  ELSE [err |-> "",
        store |-> [p \in Paths |->
                     IF p \in Ancestors(path) \cup {path} /\ st[p].kind = "none"
                     THEN Dir ELSE st[p]]]

\* head() of a Directory handle
DirHead(st, c, path, ignoreHook, henv) ==
  IF ~c.dirs THEN Thrown(<<>>, "NotSupportedError")
  ELSE FsHead(st, c, path, [type |-> "directory", ignoreHook |-> ignoreHook],
              FALSE, henv)

\* the Stats of a directory carry no size
notAFile(h) ==
  IF h.thrown # "" THEN h
  ELSE IF (CHOOSE x \in h.ret : TRUE).size # {}
    THEN Thrown(h.calls, "TypeMismatchError")
  ELSE h

_checkDirectory(st, c, path, ignoreHook, henv) ==
  notAFile(FsHead(st, c, path, [type |-> "", ignoreHook |-> ignoreHook], FALSE, henv))

\* What a beforeList hook hands back: null, or a list (possibly the empty one)
HookList(b) ==
  IF b = "nil" THEN {{}}
  ELSE IF b = "list" THEN {{<<"", "b">>}}
  ELSE {}

\* list with the answers of _checkDirectory and _list at hand
listSteps(c, opt, env, chk, l) ==
  LET useB == Registered(c, opt.ignoreHook, "beforeList")
      useA == Registered(c, opt.ignoreHook, "afterList")
      c1 == IF useB THEN <<"beforeList">> ELSE <<>>
      hl == IF useB THEN HookList(env.before) ELSE {}
      c2 == c1 \o chk.calls
      c3 == IF hl = {} THEN Append(c2, "_list") ELSE c1
      c4 == IF useA THEN Append(c3, "afterList") ELSE c3
  IN  IF useB /\ env.before = "throw" THEN Thrown(c1, "HookError")
      ELSE IF hl = {} /\ chk.thrown # "" THEN Thrown(c2, chk.thrown)
      ELSE IF hl = {} /\ l.err # "" THEN Thrown(c3, l.err)
      ELSE IF useA /\ env.after = "throw" THEN Thrown(c4, "HookError")
      ELSE Returned(c4, CHOOSE x \in (IF hl = {} THEN l.list ELSE hl) : TRUE)

DirList(st, c, path, opt, env) ==
  listSteps(c, opt, env,
            IF path # Root THEN _checkDirectory(st, c, path, opt.ignoreHook, env.h)
            ELSE Returned(<<>>, NoStats),
            B_list(st, path, env.fault))

\* mkcol from the hook on: beforeMkcol, _mkcol, afterMkcol
mkcolSteps(c, opt, env, calls, st1, m) ==
  LET useB == Registered(c, opt.ignoreHook, "beforeMkcol")
      useA == Registered(c, opt.ignoreHook, "afterMkcol")
      c2 == IF useB THEN Append(calls, "beforeMkcol") ELSE calls
      c3 == Append(c2, "_mkcol")
      c4 == IF useA THEN Append(c3, "afterMkcol") ELSE c3
  IN  IF useB /\ env.before = "throw" THEN WithStore(Thrown(c2, "HookError"), st1)
      ELSE IF useB /\ env.before = "true" THEN WithStore(Returned(c2, "void"), st1)
      ELSE IF m.err # "" THEN WithStore(Thrown(c3, m.err), st1)
      ELSE IF useA /\ env.after = "throw" THEN WithStore(Thrown(c4, "HookError"), m.store)
      ELSE WithStore(Returned(c4, "void"), m.store)

\* mkcol of an absent directory, after the parent's mkcol (if it was asked for)
mkcolParent(c, path, opt, env, chk, pr) ==
  IF pr.thrown # "" THEN WithStore(Thrown(chk.calls \o pr.calls, pr.thrown), pr.store)
  ELSE mkcolSteps(c, opt, env, chk.calls \o pr.calls, pr.store,
                  B_mkcol(pr.store, path, env.fault))

RECURSIVE DirMkcol(_, _, _, _, _)

\* mkcol once _checkDirectory has answered
mkcolChecked(st, c, path, opt, env, chk) ==
  IF chk.thrown = ""
    THEN IF opt.force THEN WithStore(Returned(chk.calls, "void"), st)
         ELSE WithStore(Thrown(chk.calls,
                          createError("NotReadableError", "SecurityError")), st)
  ELSE IF chk.thrown # "NotFoundError"
    THEN WithStore(Thrown(chk.calls, createError("NotReadableError", chk.thrown)), st)
  ELSE mkcolParent(c, path, opt, env, chk,
                   IF opt.recursive /\ path # Root
                   THEN DirMkcol(st, c, getParentPath(path),
                                 [force |-> TRUE, recursive |-> TRUE,
                                  ignoreHook |-> opt.ignoreHook], env)
                   ELSE WithStore(Returned(<<>>, "void"), st))

DirMkcol(st, c, path, opt, env) ==
  IF ~c.dirs THEN WithStore(Thrown(<<>>, "NotSupportedError"), st)
  ELSE mkcolChecked(st, c, path, opt, env,
                    _checkDirectory(st, c, path, opt.ignoreHook, env.h))

----------------------------------------------------------------------------
(* AbstractEntry *)

\* the handle's path and everything below it
Subtree(path) ==
  {p \in Paths : Len(p) >= Len(path) /\ SubSeq(p, 1, Len(path)) = path}

\* The backend's _delete: removes the entry and reports whether it did
B_delete(st, path, options, fault) ==
  IF fault = "throw" THEN [err |-> "NativeError", ok |-> FALSE, store |-> st]
  ELSE IF fault = "false" THEN [err |-> "", ok |-> FALSE, store |-> st]
  ELSE IF Children(st, path) # {} /\ ~options.recursive
    THEN [err |-> "InvalidModificationError", ok |-> FALSE, store |-> st]
  ELSE [err |-> "", ok |-> TRUE,
        store |-> [p \in Paths |-> IF p \in Subtree(path) THEN None ELSE st[p]]]

\* Node's fs.rm(path, {force, recursive}): the errno it fails with, or the
\* store without the entry; a directory is removed only with recursive
fs_rm(st, path, options, fault) ==
  IF fault THEN [code |-> "EIO", store |-> st]
  ELSE IF st[path].kind = "none"
    THEN [code |-> IF options.force THEN "" ELSE "ENOENT", store |-> st]
  ELSE IF st[path].kind = "dir" /\ ~options.recursive THEN [code |-> "EISDIR", store |-> st]
  ELSE [code |-> "",
        store |-> [p \in Paths |-> IF p \in Subtree(path) THEN None ELSE st[p]]]

\* a conversion that takes every failure for one of a read
convertError_reading(code, write) ==
  IF code = "ENOENT" THEN "NotFoundError" ELSE "NotReadableError"

\* NodeFileSystemObject.convertError
convertError(code, write) ==
  IF code = "ENOENT" THEN "NotFoundError"
  ELSE IF write THEN "InvalidModificationError"
  ELSE "NotReadableError"

\* the callback of fs.rm: reject(convertError(err, true)) or resolve()
rmDone(st, r) ==
  IF r.code # "" THEN WithStore(Thrown(<<"fs.rm">>, convertError(r.code, TRUE)), st)
  ELSE WithStore(Returned(<<"fs.rm">>, "void"), r.store)

\* NodeFileSystemObject.rm
rm(st, path, options, fault) == rmDone(st, fs_rm(st, path, options, fault))

\* Node's fs.utimes(path, atime, mtime): the errno it fails with, or the store
\* with the modification time set
fs_utimes(st, path, modified, fault) ==
  IF fault THEN [code |-> "EIO", store |-> st]
  ELSE IF st[path].kind = "none" THEN [code |-> "ENOENT", store |-> st]
  ELSE [code |-> "", store |-> [st EXCEPT ![path].modified = modified]]

\* the callback of fs.utimes: reject(convertError(err, true)) or resolve()
utimesDone(st, r) ==
  IF r.code # "" THEN WithStore(Thrown(<<"fs.utimes">>, convertError(r.code, TRUE)), st)
  ELSE WithStore(Returned(<<"fs.utimes">>, "void"), r.store)

\* NodeFileSystemObject.setTimes: both times have to be numbers
setTimes(st, path, times, fault) ==
  IF times.accessed = {} THEN WithStore(Thrown(<<>>, "InvalidStateError"), st)
  ELSE IF times.modified = {} THEN WithStore(Thrown(<<>>, "InvalidStateError"), st)
  ELSE utimesDone(st, fs_utimes(st, path, CHOOSE t \in times.modified : TRUE, fault))

\* _handleFileSystemError, then "return false"
HandledFalse(calls, e, eg) ==
  [calls |-> calls, thrown |-> IF eg THEN "" ELSE e,
   errs |-> IF eg THEN <<e>> ELSE <<>>, ret |-> IF eg THEN {FALSE} ELSE {}]

\* _exists: the head of the handle, by its kind
_exists(st, c, h, options, henv) ==
  IF h.kind = "file"
    THEN FsHead(st, c, h.path, [type |-> "file", ignoreHook |-> options.ignoreHook],
                FALSE, henv)
    ELSE DirHead(st, c, h.path, options.ignoreHook, henv)

\* delete with the answers of _exists and _delete at hand
deleteSteps(st, c, options, eg, env, ex, d) ==
  LET useB == Registered(c, options.ignoreHook, "beforeDelete")
      useA == Registered(c, options.ignoreHook, "afterDelete")
      c1 == IF useB THEN Append(ex.calls, "beforeDelete") ELSE ex.calls
      c2 == Append(c1, "_delete")
      c3 == IF useA THEN Append(c2, "afterDelete") ELSE c2
      nma(e) == createError("NoModificationAllowedError", e)
  IN  IF ex.thrown # "" /\ isFileSystemError(ex.thrown)
         /\ ex.thrown # "NotFoundError" /\ options.onNotExist = "error"
        THEN WithStore(HandledFalse(ex.calls, ex.thrown, eg), st)
      ELSE IF ex.thrown # ""
              /\ ~(isFileSystemError(ex.thrown) /\ ex.thrown # "NotFoundError")
        THEN WithStore(HandledFalse(ex.calls,
                         createError("NotReadableError", ex.thrown), eg), st)
      ELSE IF useB /\ env.before = "throw"
        THEN WithStore(HandledFalse(c1, nma("HookError"), eg), st)
      ELSE IF useB /\ env.before \in {"true", "false"}
        THEN WithStore(Returned(c1, env.before = "true"), st)
      ELSE IF d.err # "" THEN WithStore(HandledFalse(c2, nma(d.err), eg), st)
      ELSE IF useA /\ env.after = "throw"
        THEN WithStore(HandledFalse(c3, nma("HookError"), eg), d.store)
      ELSE WithStore(Returned(c3, d.ok), d.store)

EntryDelete(st, c, h, options, eg, env) ==
  deleteSteps(st, c, options, eg, env, _exists(st, c, h, options, env.h),
              B_delete(st, h.path, options, env.fault))

\* getEntry(path, options, errors): the kind asked for or shown by a trailing
\* separator decides; else head(path, options), without the list, decides
FsGetEntry(st, c, path, opt, eg, henv) ==
  IF opt.type = "file" THEN FsGetFile(path, eg)
  ELSE IF opt.type = "directory" \/ endsWithSlash(path) THEN FsGetDirectory(path, eg)
  ELSE LET h == FsHead(st, c, path, opt, FALSE, henv)
       IN  IF h.thrown # "" THEN h
           ELSE IF (CHOOSE x \in h.ret : TRUE).size # {}
             THEN [FsGetFile(path, FALSE) EXCEPT !.calls = h.calls]
           ELSE [FsGetDirectory(path, FALSE) EXCEPT !.calls = h.calls]

\* AbstractFileSystem.delete(path, options, errors): false without an entry,
\* else "return entry.delete(options)": the caller's list is not handed on
FsDelete(st, c, path, options, eg, env, g) ==
  IF g.thrown # "" THEN WithStore(g, st)
  ELSE IF g.ret = {} THEN WithStore([g EXCEPT !.ret = {FALSE}], st)
  ELSE LET d == EntryDelete(st, c, CHOOSE x \in g.ret : TRUE, options, FALSE, env)
       IN  [d EXCEPT !.calls = g.calls \o @]

----------------------------------------------------------------------------
(* AbstractFileSystem.patch *)

NoProps == [size |-> {}, etag |-> {}, accessed |-> {}, created |-> {}, modified |-> {}]

\* a clean-up that lets the size through
_fixProps_keepingSize(c, props, stats) ==
  [size |-> props.size,
   etag |-> {},
   accessed |-> IF "accessed" \in c.caps THEN props.accessed ELSE {},
   created |-> IF "created" \in c.caps THEN props.created ELSE {},
   modified |-> IF "modified" \notin c.caps THEN {} ELSE props.modified]

_fixProps(c, props, stats) ==
  [size |-> {},
   etag |-> {},
   accessed |-> IF "accessed" \in c.caps THEN props.accessed ELSE {},
   created |-> IF "created" \in c.caps THEN props.created ELSE {},
   modified |-> IF "modified" \notin c.caps THEN {}
                ELSE IF stats.modified # {} /\ stats.modified = props.modified THEN {}
                ELSE props.modified]

\* content cut or padded to n bytes
Resized(d, n) == [i \in 1..n |-> IF i <= Len(d) THEN d[i] ELSE "x"]

\* what an entry becomes when the backend persists the props it is given
Patched(e, props) ==
  [kind |-> e.kind,
   data |-> IF props.size # {} /\ e.kind = "file"
            THEN Resized(e.data, CHOOSE n \in props.size : TRUE) ELSE e.data,
   modified |-> IF props.modified # {} THEN CHOOSE t \in props.modified : TRUE
                ELSE e.modified]

\* The in-memory backend's _patch: persists what it is given
B_patch(st, path, props, fault) ==
  IF fault THEN [err |-> "NativeError", store |-> st]
  ELSE [err |-> "", store |-> [st EXCEPT ![path] = Patched(@, props)]]

\* a call's outcome, the store it leaves and the props handed to _patch
PatchOut(r, st1, sent) ==
  [calls |-> r.calls, thrown |-> r.thrown, errs |-> r.errs, ret |-> r.ret,
   store |-> st1, sent |-> sent]

\* patch from the hook on: beforePatch, _patch, afterPatch
patchSteps(st, c, eg, env, calls, fixed, b) ==
  LET useB == "beforePatch" \in c.hooks
      useA == "afterPatch" \in c.hooks
      c1 == IF useB THEN Append(calls, "beforePatch") ELSE calls
      c2 == Append(c1, "_patch")
      c3 == IF useA THEN Append(c2, "afterPatch") ELSE c2
      nma(e) == createError("NoModificationAllowedError", e)
  IN  IF useB /\ env.before = "throw"
        THEN PatchOut(HandledFalse(c1, nma("HookError"), eg), st, {})
      ELSE IF useB /\ env.before \in {"true", "false"}
        THEN PatchOut(Returned(c1, env.before = "true"), st, {})
      ELSE IF b.err # "" THEN PatchOut(HandledFalse(c2, nma(b.err), eg), st, {fixed})
      ELSE IF useA /\ env.after = "throw"
        THEN PatchOut(HandledFalse(c3, nma("HookError"), eg), b.store, {fixed})
      ELSE PatchOut(Returned(c3, TRUE), b.store, {fixed})

\* patch once the head has answered
patchHeaded(st, c, checked, eg, env, h, fixed) ==
  IF h.thrown # ""
    THEN PatchOut(HandledFalse(h.calls,
                    createError("NoModificationAllowedError", h.thrown), eg), st, {})
  ELSE patchSteps(st, c, eg, env, h.calls, fixed,
                  B_patch(st, checked, fixed, env.fault))

\* patch of a path that passed _checkPath
patchChecked(st, c, checked, props, eg, env, h) ==
  patchHeaded(st, c, checked, eg, env, h,
              _fixProps(c, props, CHOOSE x \in h.ret : TRUE))

FsPatch(st, c, path, props, opt, eg, env) ==
  IF checkPath(path, eg).thrown # "" THEN PatchOut(checkPath(path, eg), st, {})
  ELSE IF checkPath(path, eg).ret = {}
    THEN PatchOut([calls |-> <<>>, thrown |-> "", errs |-> checkPath(path, eg).errs,
                   ret |-> {FALSE}], st, {})
  ELSE patchChecked(st, c, normalizePath(path).path, props, eg, env,
                    FsHead(st, c, normalizePath(path).path,
                           [type |-> IF opt.type = "" /\ endsWithSlash(path)
                                     THEN "directory" ELSE opt.type,
                            ignoreHook |-> opt.ignoreHook], FALSE, env.h))

----------------------------------------------------------------------------
(* Copy and move: choosing the handles (the first generation of the core,
   core.ts, and the current one) *)

\* JavaScript's "stats.size ? a : b": undefined and 0 are both falsy
Truthy(size) == size # {} /\ size # {0}

\* core.ts head: hook, primitive, hook; nothing is wrapped
CoreHead(st, c, path, env) ==
  LET useB == "beforeHead" \in c.hooks
      useA == "afterHead" \in c.hooks
      c1 == IF useB THEN <<"beforeHead">> ELSE <<>>
      hs == IF useB THEN HookStats(env.before) ELSE {}
      c2 == IF hs = {} THEN Append(c1, "_head") ELSE c1
      bh == B_head(st, path, env.fault)
      c3 == IF useA THEN Append(c2, "afterHead") ELSE c2
  IN  IF useB /\ env.before = "throw" THEN Thrown(c1, "HookError")
      ELSE IF hs = {} /\ bh.err # "" THEN Thrown(c2, bh.err)
      ELSE Returned(c3, CHOOSE x \in (IF hs = {} THEN bh.stats ELSE hs) : TRUE)

(* Write streams: core.ts AbstractFile.openWriteStream; the text of
   AbstractFile.createWriteStream in AbstractFile.ts is the same *)

\* openWriteStream after its stat: create or overwrite, the before hook, the
\* backend's stream when the hook gave none
openStreamSteps(c, options, env, h) ==
  LET exists == h.thrown = ""
      bName == IF exists THEN "beforePut" ELSE "beforePost"
      useB == Registered(c, options.ignoreHook, bName)
      c1 == IF useB THEN Append(h.calls, bName) ELSE h.calls
      hooked == useB /\ env.before = "stream"
      c2 == IF hooked THEN c1 ELSE Append(c1, "_openWriteStream")
  IN  IF exists /\ options.create = "true" THEN Thrown(h.calls, "PathExistError")
      ELSE IF ~exists /\ h.thrown # "NotFoundError" THEN Thrown(h.calls, h.thrown)
      ELSE IF ~exists /\ options.create = "false" THEN Thrown(h.calls, h.thrown)
      ELSE IF useB /\ env.before = "throw" THEN Thrown(c1, "HookError")
      ELSE IF ~hooked /\ env.fault THEN Thrown(c2, "NativeError")
      ELSE Returned(c2, [create |-> ~exists, hooked |-> hooked])

\* a stream opened whatever the create option says
openWriteStream_overwriting(st, c, path, options, env) ==
  openStreamSteps(c, [options EXCEPT !.create = ""], env, CoreHead(st, c, path, env.h))

\* a stream that takes create: false for no option at all
openWriteStream_creating(st, c, path, options, env) ==
  openStreamSteps(c, [options EXCEPT !.create = IF @ = "false" THEN "" ELSE @], env,
                  CoreHead(st, c, path, env.h))

openWriteStream(st, c, path, options, env) ==
  openStreamSteps(c, options, env, CoreHead(st, c, path, env.h))

(* Streams: AbstractStream and AbstractWriteStream of the stream generation,
   ReadStream and WriteStream of core.ts, and the stream of the first
   File.openWriteStream, whose notification is sent at the opening *)

\* no stream is open
NoStream ==
  [gen |-> "", mode |-> "none", path |-> <<>>, create |-> FALSE, ignoreHook |-> FALSE,
   position |-> 0, changed |-> FALSE, writes |-> 0, closes |-> 0, fired |-> <<>>]

\* new ...Stream(file, options): position = 0, changed/handled = false; writes
\* and closes count the writes or truncations and the closes that returned,
\* fired lists the after hooks called for the stream so far
NewStream(gen, mode, path, create, ignoreHook, fired) ==
  [NoStream EXCEPT !.gen = gen, !.mode = mode, !.path = path, !.create = create,
                   !.ignoreHook = ignoreHook, !.fired = fired]

\* what a stream operation leaves: the stream, the store, and what it threw
StreamStep(s, st, thrown) == [stream |-> s, store |-> st, thrown |-> thrown]

\* the stream openWriteStream/createWriteStream returned, constructed by the
\* backend from the options the File completed (options.create = true/false)
WriteStreamOf(gen, path, options, r) ==
  IF r.thrown # "" \/ (CHOOSE x \in r.ret : TRUE).hooked THEN NoStream
  ELSE NewStream(gen, "write", path, (CHOOSE x \in r.ret : TRUE).create,
                 options.ignoreHook, <<>>)

\* the first File.openWriteStream after its stat: before hook, _openWriteStream,
\* then afterPost or afterPut at once
File_openWriteStream(c, h) ==
  LET exists == h.thrown = ""
      bName == IF exists THEN "beforePut" ELSE "beforePost"
      aName == IF exists THEN "afterPut" ELSE "afterPost"
      c1 == IF bName \in c.hooks THEN Append(h.calls, bName) ELSE h.calls
      c2 == Append(c1, "_openWriteStream")
      fired == IF aName \in c.hooks THEN <<aName>> ELSE <<>>
  IN  IF ~exists /\ h.thrown # "NotFoundError" THEN Thrown(h.calls, h.thrown)
      ELSE Returned(c2 \o fired, [create |-> ~exists, hooked |-> FALSE, fired |-> fired])

\* the stream the first File.openWriteStream returned
FirstStreamOf(path, r) ==
  IF r.thrown # "" THEN NoStream
  ELSE NewStream("first", "write", path, (CHOOSE x \in r.ret : TRUE).create, FALSE,
                 (CHOOSE x \in r.ret : TRUE).fired)

\* core.ts openReadStream: the beforeGet hook hands no stream, the backend opens
\* one on a file that is there
openReadStream(st, c, path, options) ==
  LET c1 == IF Registered(c, options.ignoreHook, "beforeGet") THEN <<"beforeGet">>
            ELSE <<>>
      c2 == Append(c1, "_openReadStream")
  IN  IF st[path].kind # "file" THEN Thrown(c2, "NotFoundError")
      ELSE Returned(c2, [create |-> FALSE, hooked |-> FALSE])

ReadStreamOf(path, options, r) ==
  IF r.thrown # "" THEN NoStream
  ELSE NewStream("core", "read", path, FALSE, options.ignoreHook, <<>>)

\* stats.size as number, of the Stats of a file
StatsSize(h) == CHOOSE n \in (CHOOSE x \in h.ret : TRUE).size : TRUE

\* the target of a seek
seekStart(position, size, offset, origin) ==
  IF origin = "Begin" THEN offset
  ELSE IF origin = "Current" THEN position + offset
  ELSE size + offset

\* a seek that takes the target as it is
seekClamped_asGiven(start, size) == start

\* if (start < 0) start = 0; else if (size < start) start = size;
seekClamped(start, size) ==
  IF start < 0 THEN 0 ELSE IF size < start THEN size ELSE start

\* AbstractStream.seek: head, the clamped target into position, then _seek
AbstractStream_seek(s, st, offset, origin, h, fault) ==
  IF h.thrown # "" THEN StreamStep(s, st, h.thrown)
  ELSE StreamStep([s EXCEPT !.position =
                     seekClamped(seekStart(s.position, StatsSize(h), offset, origin),
                                 StatsSize(h))],
                  st, IF fault THEN "NativeError" ELSE "")

\* the bytes of a file after src is written at pos
Overlaid(d, pos, src) ==
  [i \in 1..(IF Len(d) < pos + Len(src) THEN pos + Len(src) ELSE Len(d)) |->
     IF pos < i /\ i <= pos + Len(src) THEN src[i - pos] ELSE d[i]]

\* the backend's _write of a stream: src lands at pos, the file is made if absent
B_streamWrite(st, path, pos, src) ==
  [st EXCEPT ![path] = FileOf(Overlaid(IF @.kind = "file" THEN @.data ELSE <<>>,
                                       pos, src))]

\* the backend's _truncate of a stream
B_streamTruncate(st, path, size) ==
  [st EXCEPT ![path] = FileOf(Resized(IF @.kind = "file" THEN @.data ELSE <<>>, size))]

\* AbstractWriteStream.write: _write, position += written, changed = true
AbstractWriteStream_write(s, st, src, fault) ==
  IF fault THEN StreamStep(s, st, "NativeError")
  ELSE StreamStep([s EXCEPT !.position = @ + Len(src), !.changed = TRUE,
                            !.writes = @ + 1],
                  B_streamWrite(st, s.path, s.position, src), "")

\* a truncate that leaves the position where it was
AbstractWriteStream_truncate_unclamped(s, st, size, fault) ==
  IF fault THEN StreamStep(s, st, "NativeError")
  ELSE StreamStep([s EXCEPT !.changed = TRUE, !.writes = @ + 1],
                  B_streamTruncate(st, s.path, size), "")

\* AbstractWriteStream.truncate: _truncate, position pulled back, changed = true
AbstractWriteStream_truncate(s, st, size, fault) ==
  IF fault THEN StreamStep(s, st, "NativeError")
  ELSE StreamStep([s EXCEPT !.position = IF size < @ THEN size ELSE @,
                            !.changed = TRUE, !.writes = @ + 1],
                  B_streamTruncate(st, s.path, size), "")

\* WriteStream.write of core.ts: _write, handled = true; core.ts keeps no position
WriteStream_write(s, st, src, fault) ==
  IF fault THEN StreamStep(s, st, "NativeError")
  ELSE StreamStep([s EXCEPT !.changed = TRUE, !.writes = @ + 1],
                  B_streamWrite(st, s.path, s.position, src), "")

\* WriteStream.setLength of core.ts calls itself: the stack runs out before
\* anything is truncated or handled is set
WriteStream_setLength(s, st, len) == StreamStep(s, st, "RangeError")

\* the after hook a close calls for a changed stream
afterWrite(s, c) ==
  IF ~s.ignoreHook /\ "afterPost" \in c.hooks /\ s.create THEN <<"afterPost">>
  ELSE IF ~s.ignoreHook /\ "afterPut" \in c.hooks /\ ~s.create THEN <<"afterPut">>
  ELSE <<>>

\* AbstractWriteStream.close: _close, position = 0, the hook when changed
AbstractWriteStream_close(s, c, st, fault) ==
  IF fault THEN StreamStep(s, st, "NativeError")
  ELSE StreamStep([s EXCEPT !.position = 0, !.closes = @ + 1,
                            !.fired = @ \o (IF s.changed THEN afterWrite(s, c)
                                            ELSE <<>>)],
                  st, "")

\* WriteStream.close of core.ts: _close, the hook when handled
WriteStream_close(s, c, st, fault) ==
  IF fault THEN StreamStep(s, st, "NativeError")
  ELSE StreamStep([s EXCEPT !.closes = @ + 1,
                            !.fired = @ \o (IF s.changed THEN afterWrite(s, c)
                                            ELSE <<>>)],
                  st, "")

\* ReadStream.close of core.ts: _close, then afterGet
ReadStream_close(s, c, st, fault) ==
  IF fault THEN StreamStep(s, st, "NativeError")
  ELSE StreamStep([s EXCEPT !.closes = @ + 1,
                            !.fired = @ \o (IF Registered(c, s.ignoreHook, "afterGet")
                                            THEN <<"afterGet">> ELSE <<>>)],
                  st, "")

\* close of the first generation's stream is the backend's: no hook is known to it
Stream_close(s, st, fault) ==
  IF fault THEN StreamStep(s, st, "NativeError")
  ELSE StreamStep([s EXCEPT !.closes = @ + 1], st, "")

\* close() of the stream that is open
StreamClose(s, c, st, fault) ==
  IF s.gen = "abstract" THEN AbstractWriteStream_close(s, c, st, fault)
  ELSE IF s.gen = "first" THEN Stream_close(s, st, fault)
  ELSE IF s.mode = "read" THEN ReadStream_close(s, c, st, fault)
  ELSE WriteStream_close(s, c, st, fault)

(* Copy of a file: AbstractFile._xmit, with streams (AbstractFile.ts) and
   with Sources (the current AbstractFile) *)

\* createReadStream: the beforeGet hook hands no stream, the backend opens one
createReadStream(st, c, path, calls, fault) ==
  LET c1 == IF "beforeGet" \in c.hooks THEN Append(calls, "beforeGet") ELSE calls
      c2 == Append(c1, "_createReadStream")
      g == B_getSource(st, path, fault)
  IN  IF g.err # "" THEN Thrown(c2, g.err)
      ELSE Returned(c2, (CHOOSE x \in g.src : TRUE).bytes)

\* this.delete() of a move: a failure goes to copyErrors
xmitDeleted(st, c, from, calls, fault) ==
  LET c1 == IF "beforeDelete" \in c.hooks THEN Append(calls, "beforeDelete") ELSE calls
      c2 == Append(c1, "_delete")
      c3 == IF "afterDelete" \in c.hooks THEN Append(c2, "afterDelete") ELSE c2
      d == B_delete(st, from, [recursive |-> FALSE], IF fault THEN "throw" ELSE "none")
  IN  IF d.err # ""
        THEN [calls |-> c2, thrown |-> "", errs |-> <<d.err>>, ret |-> {"void"}, store |-> st]
      ELSE WithStore(Returned(c3, "void"), d.store)

\* rs.pipe(ws) and ws.close(): the bytes reach the destination unless the
\* stream is a hook's own, and close runs the after hook of a changed stream
xmitPiped(st, c, from, to, options, env, bytes, w) ==
  LET ws == CHOOSE x \in w.ret : TRUE
      aName == IF ws.create THEN "afterPost" ELSE "afterPut"
      c1 == Append(w.calls, "pipe")
      c2 == IF bytes # <<>> /\ aName \in c.hooks THEN Append(c1, aName) ELSE c1
      st1 == IF ws.hooked THEN st ELSE [st EXCEPT ![to] = FileOf(bytes)]
  IN  IF options.move THEN xmitDeleted(st1, c, from, c2, env.fault = "delete")
      ELSE WithStore(Returned(c2, "void"), st1)

\* the copy once the read stream is open: to.stat() chooses create, then
\* createWriteStream({append: false, create})
xmitStreamed(st, c, from, to, options, env, rs, th, w) ==
  IF rs.thrown # "" THEN WithStore(rs, st)
  ELSE IF th.thrown \notin {"", "NotFoundError"}
    THEN WithStore(Thrown(rs.calls \o th.calls, th.thrown), st)
  ELSE IF w.thrown # "" THEN WithStore(Thrown(rs.calls \o th.calls \o w.calls, w.thrown), st)
  ELSE xmitPiped(st, c, from, to, options, env, CHOOSE b \in rs.ret : TRUE,
                 [w EXCEPT !.calls = rs.calls \o th.calls \o @])

\* _xmit after this.head() and, without force, to.head()
xmitGuarded(st, c, from, to, toKind, options, env, h, th, calls) ==
  IF h.thrown # "" THEN WithStore(h, st)
  ELSE IF toKind = "dir" THEN WithStore(Thrown(h.calls, "InvalidModificationError"), st)
  ELSE IF ~options.force /\ th.thrown = "" THEN WithStore(Thrown(calls, "PathExistError"), st)
  ELSE IF ~options.force /\ th.thrown # "NotFoundError"
    THEN WithStore(Thrown(calls, th.thrown), st)
  ELSE xmitStreamed(st, c, from, to, options, env,
         createReadStream(st, c, from, calls, env.fault = "read"), th,
         openStreamSteps(c, [create |-> IF th.thrown = "" THEN "false" ELSE "true",
                             ignoreHook |-> FALSE],
                         [before |-> env.before, fault |-> env.fault = "write"], th))

xmitHeaded(st, c, from, to, toKind, options, env, h, th) ==
  xmitGuarded(st, c, from, to, toKind, options, env, h, th,
              IF options.force THEN h.calls ELSE h.calls \o th.calls)

\* AbstractFile._xmit of AbstractFile.ts
AbstractFile_xmit(st, c, from, to, toKind, options, env) ==
  xmitHeaded(st, c, from, to, toKind, options, env,
             CoreHead(st, c, from, env.h), CoreHead(st, c, to, env.th))

\* the current _xmit once the Source is read: to.write(source, {bufferSize})
xmitWritten(st, th, g, w) ==
  IF g.thrown # "" THEN WithStore(Thrown(th.calls \o g.calls, g.thrown), st)
  ELSE [w EXCEPT !.calls = th.calls \o g.calls \o @]

\* what the source of the copy holds, "" for a Source that could not be read
SourceRead(g) == IF g.thrown # "" THEN Source("Uint8Array", <<>>) ELSE CHOOSE x \in g.ret : TRUE

xmitSourced(st, c, to, env, th, g) ==
  xmitWritten(st, th, g,
    FileWrite(st, c, to, SourceRead(g), [append |-> "", create |-> ""],
              [h |-> env.th, before |-> IF env.before = "stream" THEN "true" ELSE env.before,
               after |-> "ok", fault |-> env.fault = "write"]))

\* the current _xmit after to.head()
xmitChecked(st, c, from, to, toKind, options, env, th) ==
  IF toKind = "dir" THEN WithStore(Thrown(<<>>, createError("TypeMismatchError", "")), st)
  ELSE IF th.thrown = "" /\ ~options.force
    THEN WithStore(Thrown(th.calls, createError("NotReadableError", "SecurityError")), st)
  ELSE IF th.thrown \notin {"", "NotFoundError"}
    THEN WithStore(Thrown(th.calls, createError("NotReadableError", th.thrown)), st)
  ELSE xmitSourced(st, c, to, env, th,
         getSource(st, c, from, [ignoreHook |-> FALSE],
                   [before |-> "null", after |-> "ok", fault |-> env.fault = "read"]))

\* AbstractFile._xmit of the current AbstractFile
File_xmit(st, c, from, to, toKind, options, env) ==
  xmitChecked(st, c, from, to, toKind, options, env, FileHead(st, c, to, env.th))

\* the pair of handles a copy or move works on, with the Stats that chose them
Pair(r, from, to) ==
  [calls |-> r.calls, thrown |-> "", errs |-> <<>>,
   ret |-> {[from |-> from, to |-> to, stats |-> CHOOSE x \in r.ret : TRUE]}]

\* core.ts: a falsy size, 0 or undefined, picks the Directory handles
coreHandles(fromPath, toPath, h) ==
  IF h.thrown # "" THEN h
  ELSE IF Truthy((CHOOSE x \in h.ret : TRUE).size)
    THEN Pair(h, B_getFile(fromPath), B_getFile(toPath))
  ELSE Pair(h, B_getDirectory(fromPath), B_getDirectory(toPath))

core_prepareXmit(st, c, fromPath, toPath, env) ==
  coreHandles(fromPath, toPath, CoreHead(st, c, fromPath, env))

\* core.ts Directory._xmit, one child of the walk
core_xmitChild(st, c, child, toDir, env) ==
  coreHandles(child, joinPaths(toDir, <<getName(child)>>), CoreHead(st, c, child, env))

\* the handle for the kind the Stats show
entryOf(h, f, d) ==
  IF h.thrown # "" THEN h
  ELSE IF (CHOOSE x \in h.ret : TRUE).size # {}
    THEN [calls |-> h.calls, thrown |-> f.thrown, errs |-> <<>>, ret |-> f.ret]
  ELSE [calls |-> h.calls, thrown |-> d.thrown, errs |-> <<>>, ret |-> d.ret]

\* getEntry(path) without options or error list
getEntry(st, c, path, env) ==
  IF endsWithSlash(path) THEN FsGetDirectory(path, FALSE)
  ELSE entryOf(FsHead(st, c, path, [type |-> "", ignoreHook |-> FALSE], FALSE, env),
               FsGetFile(path, FALSE), FsGetDirectory(path, FALSE))

\* the destination handle, of the kind of the source handle
pairOf(g, stats, tf, td) ==
  IF g.thrown # "" THEN g
  ELSE IF (CHOOSE x \in g.ret : TRUE).kind = "file"
    THEN IF tf.thrown # "" THEN Thrown(g.calls, tf.thrown)
         ELSE Pair([calls |-> g.calls, ret |-> {stats}],
                   CHOOSE x \in g.ret : TRUE, CHOOSE x \in tf.ret : TRUE)
  ELSE IF td.thrown # "" THEN Thrown(g.calls, td.thrown)
  ELSE Pair([calls |-> g.calls, ret |-> {stats}],
            CHOOSE x \in g.ret : TRUE, CHOOSE x \in td.ret : TRUE)

\* the Stats getEntry decided on (none are read for a path with a trailing
\* separator)
entryStats(path, h) ==
  IF endsWithSlash(path) \/ h.ret = {} THEN NoStats ELSE CHOOSE x \in h.ret : TRUE

_prepareXmit(st, c, fromPath, toPath, env) ==
  pairOf(getEntry(st, c, fromPath, env),
         entryStats(fromPath,
                    FsHead(st, c, fromPath, [type |-> "", ignoreHook |-> FALSE],
                           FALSE, env)),
         FsGetFile(toPath, FALSE), FsGetDirectory(toPath, FALSE))

\* the handles of a child and of its destination, of the kind the Stats show
childHandles(h, ff, fd, tf, td) ==
  IF h.thrown # "" THEN h
  ELSE IF (CHOOSE x \in h.ret : TRUE).size # {}
    THEN IF ff.thrown # "" THEN Thrown(h.calls, ff.thrown)
         ELSE IF tf.thrown # "" THEN Thrown(h.calls, tf.thrown)
         ELSE Pair(h, CHOOSE x \in ff.ret : TRUE, CHOOSE x \in tf.ret : TRUE)
  ELSE IF fd.thrown # "" THEN Thrown(h.calls, fd.thrown)
  ELSE IF td.thrown # "" THEN Thrown(h.calls, td.thrown)
  ELSE Pair(h, CHOOSE x \in fd.ret : TRUE, CHOOSE x \in td.ret : TRUE)

\* AbstractDirectory._xmit, one child of the walk
xmitChild(st, c, fromPath, toDir, options, env) ==
  childHandles(FsHead(st, c, fromPath,
                      [type |-> "", ignoreHook |-> options.ignoreHook], FALSE, env),
               FsGetFile(fromPath, FALSE), FsGetDirectory(fromPath, FALSE),
               FsGetFile(joinPaths(toDir, <<getName(fromPath)>>), FALSE),
               FsGetDirectory(joinPaths(toDir, <<getName(fromPath)>>), FALSE))

----------------------------------------------------------------------------
(* delete with DeleteOptions{force, recursive}: AbstractFile._delete and
   AbstractDirectory._delete.  A result carries the store left behind, what
   was thrown, the error list filled so far (path and kind of each failure)
   and the paths removed, in the order of their removal. *)

Outcome(st, thrown, errors, removed) ==
  [store |-> st, thrown |-> thrown, errors |-> errors, removed |-> removed]

\* the environment of a list() made on the way: nothing but its head is disturbed
ListEnvOf(henv) == [h |-> henv, before |-> "null", after |-> "ok", fault |-> FALSE]

\* The backend's _rm: removes the file; fails on the paths chosen to fail
B_rm(st, path, fails) ==
  IF path \in fails THEN [err |-> "NoModificationAllowedError", store |-> st]
  ELSE [err |-> "", store |-> [st EXCEPT ![path] = None]]

\* The backend's _rmdir: removes an empty directory, refuses one with children
B_rmdir(st, path, fails) ==
  IF Children(st, path) # {} THEN [err |-> "InvalidModificationError", store |-> st]
  ELSE IF path \in fails THEN [err |-> "NoModificationAllowedError", store |-> st]
  ELSE [err |-> "", store |-> [st EXCEPT ![path] = None]]

\* AbstractFile._delete with its head at hand
fileDeleteHeaded(st, path, options, h, r) ==
  IF h.thrown = "NotFoundError"
    THEN IF options.force THEN Outcome(st, "", <<>>, <<>>)
         ELSE Outcome(st, h.thrown, <<>>, <<>>)
  ELSE IF h.thrown # ""
    THEN Outcome(st, createError("NotReadableError", h.thrown), <<>>, <<>>)
  ELSE IF (CHOOSE x \in h.ret : TRUE).size = {}
    THEN Outcome(st, createError("NotReadableError", "TypeMismatchError"), <<>>, <<>>)
  ELSE IF r.err # "" THEN Outcome(st, r.err, <<>>, <<>>)
  ELSE Outcome(r.store, "", <<>>, <<path>>)

File_delete(st, c, path, options, fails, henv) ==
  fileDeleteHeaded(st, path, options, FileHead(st, c, path, henv), B_rm(st, path, fails))

\* "return this._rmdir()", unless the loop before it has thrown
rmdirStep(acc, path, r) ==
  IF acc.thrown # "" THEN acc
  ELSE IF r.err # "" THEN [acc EXCEPT !.thrown = r.err]
  ELSE [acc EXCEPT !.store = r.store, !.removed = Append(@, path)]

\* the try/catch around one child: with force its failure joins the list and
\* the loop goes on, without force it is rethrown; the list the child's own
\* delete returns is not looked at
childStep(acc, child, options, r) ==
  [store |-> r.store,
   thrown |-> IF options.force THEN "" ELSE r.thrown,
   errors |-> IF r.thrown # "" /\ options.force
              THEN Append(acc.errors, [path |-> child, kind |-> r.thrown])
              ELSE acc.errors,
   removed |-> acc.removed \o r.removed]

\* a walk that leaves the directories among the children alone
childEntry_filesOnly(st, g, fileCase, dirCase) ==
  IF g.thrown # "" THEN Outcome(st, g.thrown, <<>>, <<>>)
  ELSE IF (CHOOSE x \in g.ret : TRUE).kind = "file" THEN fileCase
  ELSE Outcome(st, "", <<>>, <<>>)

\* fs.getEntry(child), then the delete of the handle it gives
childEntry(st, g, fileCase, dirCase) ==
  IF g.thrown # "" THEN Outcome(st, g.thrown, <<>>, <<>>)
  ELSE IF (CHOOSE x \in g.ret : TRUE).kind = "file" THEN fileCase
  ELSE dirCase

RECURSIVE Dir_delete(_, _, _, _, _, _)
RECURSIVE deleteChildren(_, _, _, _, _, _)

\* the loop over the listed children, in the order the backend listed them
deleteChildren(acc, todo, c, options, fails, henv) ==
  IF todo = {} \/ acc.thrown # "" THEN acc
  ELSE deleteChildren(
         childStep(acc, CHOOSE p \in todo : TRUE, options,
                   childEntry(acc.store,
                              getEntry(acc.store, c, CHOOSE p \in todo : TRUE, henv),
                              File_delete(acc.store, c, CHOOSE p \in todo : TRUE,
                                          options, fails, henv),
                              Dir_delete(acc.store, c, CHOOSE p \in todo : TRUE,
                                         options, fails, henv))),
         todo \ {CHOOSE p \in todo : TRUE}, c, options, fails, henv)

\* the children gone (or their failures listed), the directory itself
dirRemoved(acc, path, fails) == rmdirStep(acc, path, B_rmdir(acc.store, path, fails))

\* AbstractDirectory._delete after _checkDirectory and, when recursive, list
dirDeleteChecked(st, c, path, options, fails, henv, chk, l) ==
  IF chk.thrown = "TypeMismatchError" THEN Outcome(st, chk.thrown, <<>>, <<>>)
  ELSE IF chk.thrown = "NotFoundError"
    THEN IF options.force THEN Outcome(st, "", <<>>, <<>>)
         ELSE Outcome(st, chk.thrown, <<>>, <<>>)
  ELSE IF chk.thrown # ""
    THEN Outcome(st, createError("NotReadableError", chk.thrown), <<>>, <<>>)
  ELSE IF ~options.recursive
    THEN rmdirStep(Outcome(st, "", <<>>, <<>>), path, B_rmdir(st, path, fails))
  ELSE IF l.thrown # "" THEN Outcome(st, l.thrown, <<>>, <<>>)
  ELSE dirRemoved(deleteChildren(Outcome(st, "", <<>>, <<>>),
                                 CHOOSE x \in l.ret : TRUE, c, options, fails, henv),
                  path, fails)

Dir_delete(st, c, path, options, fails, henv) ==
  dirDeleteChecked(st, c, path, options, fails, henv,
                   _checkDirectory(st, c, path, FALSE, henv),
                   DirList(st, c, path, [ignoreHook |-> FALSE], ListEnvOf(henv)))

\* Entry.delete(options): a fresh error list, _delete(options, errors), the list
Entry_delete(st, c, h, options, fails, henv) ==
  IF h.kind = "file" THEN File_delete(st, c, h.path, options, fails, henv)
  ELSE Dir_delete(st, c, h.path, options, fails, henv)

----------------------------------------------------------------------------
(* Copy and move of a tree, core.ts: AbstractFileSystemObject.copy and move,
   AbstractDirectory._xmit, AbstractFile._xmit.  A walk carries the store, what
   was thrown, copyErrors (from, to and kind of each failure) and the steps
   the backend was asked for, in their order.  No hook answers in the
   backend's place. *)

Step(op, path) == [op |-> op, path |-> path]

Walk(st, thrown, errors, log) ==
  [store |-> st, thrown |-> thrown, errors |-> errors, log |-> log]

\* the walk goes on with one more step of the backend made
Stepped(w, op, path) == [w EXCEPT !.log = Append(@, Step(op, path))]

\* the walk ends with a thrown error
Raised(w, kind) == [w EXCEPT !.thrown = kind]

\* copyErrors.push({from, to, error})
Pushed(w, from, to, kind) ==
  [w EXCEPT !.thrown = "",
            !.errors = Append(@, [from |-> from, to |-> to, kind |-> kind])]

\* What a write stream that was opened and closed without a write leaves at
\* its path: the backend either leaves the path as it was or leaves an empty
\* file there
Unwritten(st, path, unwritten) ==
  IF unwritten = "empty" /\ path \in Paths THEN [st EXCEPT ![path] = FileOf(<<>>)] ELSE st

\* a delete on behalf of a moved node whose failure is thrown on
coreDeleted_throwing(w, from, to, fails) ==
  LET w1 == Stepped(w, "delete", from)
      d == B_delete(w.store, from, [recursive |-> FALSE],
                    IF Step("delete", from) \in fails THEN "throw" ELSE "none")
  IN  IF d.err # "" THEN Raised(w1, d.err)
      ELSE [w1 EXCEPT !.store = d.store]

\* this.fs.delete(path, {}) on behalf of a moved node: _delete without
\* recursion; a failure joins copyErrors
coreDeleted(w, from, to, fails) ==
  LET w1 == Stepped(w, "delete", from)
      d == B_delete(w.store, from, [recursive |-> FALSE],
                    IF Step("delete", from) \in fails THEN "throw" ELSE "none")
  IN  IF d.err # "" THEN Pushed(w1, from, to, d.err)
      ELSE [w1 EXCEPT !.store = d.store]

\* core.ts AbstractFile._xmit from openReadStream on: to.stat() chooses create,
\* the write stream is opened, "while ((buffer = rs.read()) == null)" compares
\* a promise with null and so writes nothing, both streams are closed; the
\* "if (move)" that follows has an empty body
coreFileStreamed(w, from, to, fails, unwritten, th) ==
  IF Step("read", from) \in fails
    THEN Raised(Stepped(w, "read", from), "NotReadableError")
  ELSE IF th.err \notin {"", "NotFoundError"}
    THEN Raised(Stepped(Stepped(w, "read", from), "head", to), th.err)
  ELSE IF Step("open", to) \in fails
    THEN Raised(Stepped(Stepped(Stepped(w, "read", from), "head", to), "open", to),
                "NoModificationAllowedError")
  ELSE [Stepped(Stepped(Stepped(w, "read", from), "head", to), "open", to)
          EXCEPT !.store = Unwritten(w.store, to, unwritten)]

\* core.ts AbstractFile._xmit after this.stat()
coreFileHeaded(w, from, to, toKind, fails, unwritten, h) ==
  IF h.err # "" THEN Raised(Stepped(w, "head", from), h.err)
  ELSE IF toKind = "dir" THEN Raised(Stepped(w, "head", from), "InvalidModificationError")
  ELSE coreFileStreamed(Stepped(w, "head", from), from, to, fails, unwritten,
                        B_head(w.store, to, Step("head", to) \in fails))

coreFileXmit(w, from, to, toKind, fails, unwritten) ==
  coreFileHeaded(w, from, to, toKind, fails, unwritten,
                 B_head(w.store, from, Step("head", from) \in fails))

\* the try/catch around a child's _xmit and, for a move, its delete
coreChildDone(child, toPath, move, fails, r) ==
  IF r.thrown # "" THEN Pushed(r, child, toPath, r.thrown)
  ELSE IF move THEN coreDeleted(r, child, toPath, fails)
  ELSE r

RECURSIVE coreDirXmit(_, _, _, _, _, _, _)
RECURSIVE coreChildren(_, _, _, _, _, _)

\* one child of the loop: this.fs.head(child) outside the try, the handles by
\* "stats.size ?", then the child's _xmit
coreChild(w, child, toPath, move, fails, unwritten, h) ==
  IF h.err # "" THEN Raised(Stepped(w, "head", child), h.err)
  ELSE coreChildDone(child, toPath, move, fails,
         IF Truthy((CHOOSE x \in h.stats : TRUE).size)
         THEN coreFileXmit(Stepped(w, "head", child), child, toPath, "file", fails,
                           unwritten)
         ELSE coreDirXmit(Stepped(w, "head", child), child, toPath, "dir", move, fails,
                          unwritten))

\* the loop over the listed children; a throw ends it
coreChildren(acc, todo, toDir, move, fails, unwritten) ==
  IF todo = {} \/ acc.thrown # "" THEN acc
  ELSE coreChildren(
         coreChild(acc, CHOOSE p \in todo : TRUE,
                   joinPaths(toDir, <<getName(CHOOSE p \in todo : TRUE)>>), move, fails,
                   unwritten,
                   B_head(acc.store, CHOOSE p \in todo : TRUE,
                          Step("head", CHOOSE p \in todo : TRUE) \in fails)),
         todo \ {CHOOSE p \in todo : TRUE}, toDir, move, fails, unwritten)

\* core.ts AbstractDirectory._xmit after toDir.mkcol() and this.list()
coreDirListed(w, from, to, move, fails, unwritten, m, l) ==
  IF m.err # "" THEN Raised(Stepped(w, "mkcol", to), m.err)
  ELSE IF l.err # ""
    THEN Raised([Stepped(Stepped(w, "mkcol", to), "list", from) EXCEPT !.store = m.store],
                l.err)
  ELSE coreChildren([Stepped(Stepped(w, "mkcol", to), "list", from)
                       EXCEPT !.store = m.store],
                    CHOOSE x \in l.list : TRUE, to, move, fails, unwritten)

\* core.ts AbstractDirectory._xmit after this.head()
coreDirHeaded(w, from, to, toKind, move, fails, unwritten, h, m) ==
  IF h.err # "" THEN Raised(Stepped(w, "head", from), h.err)
  ELSE IF toKind = "file"
    THEN Raised(Stepped(w, "head", from), "InvalidModificationError")
  ELSE coreDirListed(Stepped(w, "head", from), from, to, move, fails, unwritten, m,
                     B_list(m.store, from, Step("list", from) \in fails))

coreDirXmit(w, from, to, toKind, move, fails, unwritten) ==
  coreDirHeaded(w, from, to, toKind, move, fails, unwritten,
                B_head(w.store, from, Step("head", from) \in fails),
                B_mkcol(w.store, to, Step("mkcol", to) \in fails))

\* copy(fso, options) and move(fso, options): a fresh copyErrors, _xmit, the list
coreXmit(st, h, to, move, fails, unwritten) ==
  IF h.kind = "file"
    THEN coreFileXmit(Walk(st, "", <<>>, <<>>), h.path, to.path, to.kind, fails, unwritten)
  ELSE coreDirXmit(Walk(st, "", <<>>, <<>>), h.path, to.path, to.kind, move, fails,
                   unwritten)

(* Copy of a tree, current generation: AbstractDirectory._xmit and
   AbstractFile._xmit, with the same walk record *)

Has(calls, name) == \E i \in 1..Len(calls) : calls[i] = name

\* the surroundings of one step of the walk: hooks hand back nothing, the
\* backend fails the steps chosen to fail
HeadEnvAt(fails, path) ==
  [before |-> "null", after |-> "ok", fault |-> Step("head", path) \in fails]

StepEnvAt(fails, op, path) ==
  [h |-> HeadEnvAt(fails, path), before |-> "null", after |-> "ok",
   fault |-> Step(op, path) \in fails]

FileEnvAt(fails, from, to) ==
  [th |-> HeadEnvAt(fails, to), before |-> "null",
   fault |-> IF Step("read", from) \in fails THEN "read"
             ELSE IF Step("write", to) \in fails THEN "write" ELSE "none"]

\* a handle operation made on the way: its store, its throw, and the step of
\* the backend it reached
Walked(w, op, path, prim, r) ==
  [store |-> r.store, thrown |-> r.thrown, errors |-> w.errors,
   log |-> IF Has(r.calls, prim) THEN Append(w.log, Step(op, path)) ELSE w.log]

\* AbstractFile._xmit as a step of the walk
fileXmit(w, c, from, to, toKind, options, fails) ==
  Walked(w, "write", to, "_write",
         File_xmit(w.store, c, from, to, toKind, options, FileEnvAt(fails, from, to)))

\* the catch of the loop: copyErrors.push({...e, from: fromPath, to: toPath})
xmitChildDone(child, toPath, r) ==
  IF r.thrown # "" THEN Pushed(r, child, toPath, r.thrown) ELSE r

RECURSIVE dirXmit(_, _, _, _, _, _, _)
RECURSIVE dirChildren(_, _, _, _, _, _)

\* one child of the loop, everything of it inside the try
dirChild(w, c, child, options, fails, x) ==
  IF x.thrown # "" THEN Pushed(Stepped(w, "head", child), child, <<>>, x.thrown)
  ELSE xmitChildDone(child, (CHOOSE y \in x.ret : TRUE).to.path,
         IF (CHOOSE y \in x.ret : TRUE).from.kind = "file"
         THEN fileXmit(Stepped(w, "head", child), c, child,
                       (CHOOSE y \in x.ret : TRUE).to.path, "file", options, fails)
         ELSE dirXmit(Stepped(w, "head", child), c, child,
                      (CHOOSE y \in x.ret : TRUE).to.path, "dir", options, fails))

dirChildren(acc, todo, c, toDir, options, fails) ==
  IF todo = {} THEN acc
  ELSE dirChildren(
         dirChild(acc, c, CHOOSE p \in todo : TRUE, options, fails,
                  xmitChild(acc.store, c, CHOOSE p \in todo : TRUE, toDir, options,
                            HeadEnvAt(fails, CHOOSE p \in todo : TRUE))),
         todo \ {CHOOSE p \in todo : TRUE}, c, toDir, options, fails)

\* AbstractDirectory._xmit after the destination's mkcol and, when recursive,
\* this.list()
dirXmitMade(w, c, from, to, options, fails, m, l) ==
  IF m.thrown # "" \/ ~options.recursive THEN m
  ELSE IF l.thrown # "" THEN Raised(Stepped(m, "list", from), l.thrown)
  ELSE dirChildren(Stepped(m, "list", from), CHOOSE x \in l.ret : TRUE, c, to, options,
                   fails)

dirXmitChecked(w, c, from, to, options, fails, m) ==
  dirXmitMade(w, c, from, to, options, fails, m,
              DirList(m.store, c, from, [ignoreHook |-> FALSE],
                      StepEnvAt(fails, "list", from)))

dirXmit(w, c, from, to, toKind, options, fails) ==
  IF toKind = "file" THEN Raised(w, createError("TypeMismatchError", ""))
  ELSE dirXmitChecked(w, c, from, to, options, fails,
         Walked(w, "mkcol", to, "_mkcol",
                DirMkcol(w.store, c, to,
                         [force |-> options.force, recursive |-> FALSE,
                          ignoreHook |-> options.ignoreHook],
                         StepEnvAt(fails, "mkcol", to))))

\* _xmit on a handle with a fresh copyErrors
entryXmit(st, c, h, to, options, fails) ==
  IF h.kind = "file"
    THEN fileXmit(Walk(st, "", <<>>, <<>>), c, h.path, to.path, to.kind, options, fails)
  ELSE dirXmit(Walk(st, "", <<>>, <<>>), c, h.path, to.path, to.kind, options, fails)

(* Move on a handle, AbstractEntry.move: _copy, then delete *)

\* the place below "to" of a node below "from"
Rebased(q, from, to) == to \o SubSeq(q, Len(from) + 1, Len(q))

\* the store with the tree at "from" also at "to"
Copied(st, from, to) ==
  [p \in Paths |->
     IF \E q \in Subtree(from) : st[q].kind # "none" /\ Rebased(q, from, to) = p
     THEN st[CHOOSE q \in Subtree(from) : st[q].kind # "none" /\ Rebased(q, from, to) = p]
     ELSE st[p]]

\* _copy of an entry: the tree is copied and true returned, or false
B_copy(st, from, to, copies) ==
  IF copies THEN [ok |-> TRUE, store |-> Copied(st, from, to)]
  ELSE [ok |-> FALSE, store |-> st]

\* move once _copy has answered: "if (!result) return false", else the delete
moveCopied(cp, d) ==
  IF ~cp.ok THEN WithStore(Returned(<<"_copy">>, FALSE), cp.store)
  ELSE [d EXCEPT !.calls = <<"_copy">> \o @]

Entry_move(st, c, h, to, options, eg, env, copies) ==
  moveCopied(B_copy(st, h.path, to, copies),
             EntryDelete(B_copy(st, h.path, to, copies).store, c, h,
                         [onNotExist |-> "error", recursive |-> TRUE,
                          ignoreHook |-> options.ignoreHook], eg, env))

(* Inputs *)

\* Caller paths: every normalized path, the same with a trailing separator,
\* a name with an illegal character, and a path that climbs above the root.
RawPaths ==
  Paths \cup {Append(p, "") : p \in Paths \ {Root}}
        \cup {<<"", "?">>, <<"", "..", "a">>, <<"", "a", ".", "b">>, <<"a", "", "b">>}

HeadOptions == [type : {"", "file", "directory"}, ignoreHook : BOOLEAN]
HeadEnvs == [before : {"null", "file", "dir", "throw"}, after : {"ok", "throw"},
             fault : BOOLEAN]

\* the head a handle operation runs first: no hook interferes, the beforeHead
\* hook answers from a cache, or the backend fails
NestedHeadEnvs ==
  {[before |-> "null", after |-> "ok", fault |-> FALSE],
   [before |-> "file", after |-> "ok", fault |-> FALSE],
   [before |-> "null", after |-> "ok", fault |-> TRUE]}

\* What surrounds a handle operation: its nested head is disturbed only while
\* the operation's own hooks and primitive are not
HandleEnvs(befores, faults, ok) ==
  {e \in [h : NestedHeadEnvs, before : befores, after : {"ok", "throw"},
          fault : faults] :
     \/ e.h = [before |-> "null", after |-> "ok", fault |-> FALSE]
     \/ e.after = "ok" /\ e.fault = ok /\ e.before \in {"null", "true", "list"}}

WriteOptions == [append : {"", "true", "false"}, create : {"", "true", "false"}]
WriteEnvs == HandleEnvs({"null", "false", "true", "throw"}, BOOLEAN, FALSE)
WritePaths == Paths \ {Root, <<"", "a", "a">>, <<"", "c", "a">>}
ReadOptions == [sourceType : {"", "Text"}, ignoreHook : BOOLEAN]
ReadEnvs == [before : {"null", "empty", "data", "throw"}, after : {"ok", "throw"},
             fault : BOOLEAN]

ListOptions == [ignoreHook : BOOLEAN]
ListEnvs == HandleEnvs({"null", "nil", "list", "throw"}, BOOLEAN, FALSE)
MkcolOptions == [force : BOOLEAN, recursive : BOOLEAN, ignoreHook : BOOLEAN]
MkcolEnvs == HandleEnvs({"null", "false", "true", "throw"}, BOOLEAN, FALSE)
DeleteOptions == [onNotExist : {"error", "ignore"}, recursive : BOOLEAN,
                  ignoreHook : BOOLEAN]
DeleteEnvs ==
  HandleEnvs({"null", "false", "true", "throw"}, {"none", "false", "throw"}, "none")
\* paths to delete by: files, a directory with and without a trailing
\* separator, a path with an illegal character and one above the root
DeletePaths ==
  {<<"", "b">>, <<"", "a">>, <<"", "a", "">>, <<"", "a", "b">>, <<"", "?">>,
   <<"", "..", "a">>}
Handles == [kind : {"file", "dir"}, path : Paths \ {Root, <<"", "a", "c">>, <<"", "c", "a">>}]
PatchOptions == [type : {"", "file", "directory"}, ignoreHook : BOOLEAN]
PatchEnvs == HandleEnvs({"null", "false", "true", "throw"}, BOOLEAN, FALSE)
PatchProps ==
  {[NoProps EXCEPT !.modified = {1}],
   [NoProps EXCEPT !.size = {5}, !.modified = {0}],
   [NoProps EXCEPT !.accessed = {1}, !.created = {1}],
   [NoProps EXCEPT !.created = {1}, !.modified = {1}]}
PatchPaths ==
  {Root, <<"", "a">>, <<"", "b">>, <<"", "c">>, <<"", "a", "b">>,
   <<"", "a", "">>, <<"", "?">>}

XmitTargets == {<<"", "c">>, <<"", "a", "c">>}
XmitDirs == {<<"", "c">>, <<"", "a">>}
Generations == {"core", "current"}

\* copies of a file: the source, the destination and the kind of its handle,
\* force and move, the two heads, what the destination's before hook hands
\* back, and the step of the backend that fails
CopySources == {<<"", "a", "b">>, <<"", "b">>, <<"", "c">>}
CopyTargets == {<<"", "b">>, <<"", "c">>, <<"", "a", "b">>}
XmitOptions == [force : BOOLEAN, move : BOOLEAN]
XmitEnvs == [h : NestedHeadEnvs, th : NestedHeadEnvs, before : {"null", "stream", "throw"},
             fault : {"none", "read", "write", "delete"}]
FileGenerations == {"stream", "current"}

\* trees to copy or move: the handles of the source and of the destination,
\* the step of the backend that fails (none, or one), and what the backend
\* leaves of a write stream that was never written
WalkSources ==
  {[kind |-> "dir", path |-> <<"", "a">>], [kind |-> "dir", path |-> <<"", "a", "a">>],
   [kind |-> "file", path |-> <<"", "a", "b">>], [kind |-> "file", path |-> <<"", "b">>],
   [kind |-> "dir", path |-> <<"", "a", "c">>], [kind |-> "file", path |-> <<"", "a">>]}
WalkTargets == [kind : {"file", "dir"}, path : {<<"", "c">>, <<"", "b">>}]
WalkFails ==
  {{}} \cup {{Step("head", p)} : p \in {<<"", "a">>, <<"", "a", "a">>, <<"", "a", "b">>,
                                        <<"", "a", "a", "b">>, <<"", "c">>}}
       \cup {{Step("mkcol", p)} : p \in {<<"", "c">>, <<"", "c", "a">>}}
       \cup {{Step("list", p)} : p \in {<<"", "a">>, <<"", "a", "a">>}}
       \cup {{Step("read", p)} : p \in {<<"", "a", "b">>, <<"", "a", "a", "b">>}}
       \cup {{Step(op, p)} : op \in {"open", "write"},
                             p \in {<<"", "c">>, <<"", "c", "b">>, <<"", "c", "a", "b">>}}
       \cup {{Step("delete", p)} : p \in {<<"", "a", "a">>, <<"", "a", "b">>,
                                          <<"", "a", "a", "b">>}}
WalkOptions == [force : BOOLEAN, recursive : BOOLEAN, ignoreHook : {FALSE}]
\* the calls of a walk: copy and move of core.ts, copy of the current core
WalkCalls ==
  [gen : {"core"}, move : BOOLEAN, opt : {[force |-> FALSE, recursive |-> TRUE,
                                          ignoreHook |-> FALSE]}]
  \cup [gen : {"current"}, move : {FALSE}, opt : WalkOptions]
MoveOptions == [ignoreHook : BOOLEAN]
MoveTargets == {<<"", "c">>}

StreamOptions == [create : {"", "true", "false"}, ignoreHook : BOOLEAN]
\* the stat a stream opening starts with, what a beforePost/beforePut hook hands
\* back (null or a stream of its own), and whether the backend fails to open
StreamEnvs == [h : NestedHeadEnvs, before : {"null", "stream", "throw"}, fault : BOOLEAN]

\* the streams opened: on the file "/a/b" and on the absent "/c", by each
\* generation of the File
StreamPaths == {<<"", "a", "b">>, <<"", "c">>}
StreamOpenings ==
  {[gen |-> "abstract", mode |-> "write"], [gen |-> "core", mode |-> "write"],
   [gen |-> "core", mode |-> "read"], [gen |-> "first", mode |-> "write"]}
\* an opening nothing disturbs: the hooks hand nothing, the backend answers
CalmHead == [before |-> "null", after |-> "ok", fault |-> FALSE]
CalmOpening == [h |-> CalmHead, before |-> "null", fault |-> FALSE]
\* offsets of a seek, from before the start to beyond the end of any file
SeekOffsets == (0 - (MaxLen + 1))..(MaxLen + 1)
SeekOrigins == {"Begin", "Current", "End"}

\* the strings given to normalizePath, split at "/": "" is <<"">>, "/" is
\* <<"", "">>, "a//../b" is <<"a", "", "..", "b">>
PathSegments == {"", ".", "..", "a", "b"}
PathStrings == UNION {[1..n -> PathSegments] : n \in 1..MaxSegs}

\* handles to delete: the tree "/a", the directory "/a/a" in it, files, absent
\* paths, and a handle of the wrong kind
TreeHandles ==
  {[kind |-> "dir", path |-> <<"", "a">>], [kind |-> "dir", path |-> <<"", "a", "a">>],
   [kind |-> "file", path |-> <<"", "a", "b">>], [kind |-> "file", path |-> <<"", "c">>],
   [kind |-> "dir", path |-> <<"", "c">>], [kind |-> "file", path |-> <<"", "a">>]}
TreeOptions == [force : BOOLEAN, recursive : BOOLEAN]
\* the removals the backend fails: none, or that of one entry of the tree
TreeFails ==
  {{}} \cup {{p} : p \in {<<"", "a", "b">>, <<"", "a", "a", "b">>, <<"", "a", "a">>,
                          <<"", "a">>}}

RmPaths == {<<"", "a">>, <<"", "a", "a">>, <<"", "a", "b">>, <<"", "b">>, <<"", "c">>}

\* Times: each of accessed and modified given or not
NodeTimes == [accessed : {{}, {1}}, modified : {{}, {1}}]

AllHooks == {"beforeHead", "afterHead", "beforePatch", "afterPatch",
             "beforeDelete", "afterDelete", "beforeList", "afterList",
             "beforeMkcol", "afterMkcol", "beforeGet", "afterGet",
             "beforePost", "afterPost", "beforePut", "afterPut"}

\* The file system as constructed: the hooks registered, whether the backend
\* has directories, and the times it can persist.
Configs == [hooks : {{}, AllHooks}, dirs : BOOLEAN, caps : {{"accessed", "modified"}}]

\* A tree on a backend with directories; the same files on a flat backend.
InitStore(dirs) ==
  [p \in Paths |->
     IF p \in {Root, <<"", "a">>, <<"", "a", "a">>} THEN IF dirs THEN Dir ELSE None
     ELSE IF p = <<"", "a", "b">> THEN FileOf(<<"x">>)
     ELSE IF p = <<"", "a", "a", "b">> THEN IF dirs THEN FileOf(<<"y">>) ELSE None
     ELSE IF p = <<"", "b">> THEN FileOf(<<>>)
     ELSE None]

Idle == [op |-> "", path |-> <<>>, in |-> <<>>, calls |-> <<>>, thrown |-> "",
         errs |-> <<>>, ret |-> {}, pre |-> <<>>]

Done(op, path, in, r) ==
  [op |-> op, path |-> path, in |-> in, calls |-> r.calls, thrown |-> r.thrown,
   errs |-> r.errs, ret |-> r.ret, pre |-> store]

----------------------------------------------------------------------------
(* Actions: one call of the caller each *)

Init ==
  /\ cfg \in Configs
  /\ store = InitStore(cfg.dirs)
  /\ last = Idle
  /\ phase = "idle"
  /\ nOps = 0
  /\ stream = NoStream
  /\ tasks = <<>>

\* a call on the file system; the one open stream, if any, and the calls in
\* flight beside it are not touched by it
Call ==
  /\ phase = "idle" /\ nOps < MaxOps /\ phase' = "done" /\ nOps' = nOps + 1
  /\ UNCHANGED <<stream, tasks>>

head ==
  /\ Call
  /\ \E path \in RawPaths, opt \in HeadOptions, eg \in BOOLEAN, env \in HeadEnvs :
    /\ last' = Done("head", path, [opt |-> opt, eg |-> eg, env |-> env],
                    FsHead(store, cfg, path, opt, eg, env))
    /\ UNCHANGED <<store, cfg>>

getFile ==
  /\ Call
  /\ \E path \in RawPaths, eg \in BOOLEAN :
    /\ last' = Done("getFile", path, [eg |-> eg], FsGetFile(path, eg))
    /\ UNCHANGED <<store, cfg>>

getDirectory ==
  /\ Call
  /\ \E path \in RawPaths, eg \in BOOLEAN :
    /\ last' = Done("getDirectory", path, [eg |-> eg], FsGetDirectory(path, eg))
    /\ UNCHANGED <<store, cfg>>

toURL ==
  /\ Call
  /\ \E path \in RawPaths, opt \in HeadOptions, eg \in BOOLEAN, env \in HeadEnvs :
    /\ last' = Done("toURL", path, [opt |-> opt, eg |-> eg, env |-> env],
                    FsToURL(store, cfg, path, opt, eg, env,
                            FsHead(store, cfg, path, opt, eg, env)))
    /\ UNCHANGED <<store, cfg>>

write ==
  /\ Call
  /\ \E path \in WritePaths, d \in Contents, opt \in WriteOptions, env \in WriteEnvs :
       LET r == FileWrite(store, cfg, path, Source("Uint8Array", d), opt, env)
       IN  /\ last' = Done("write", path, [data |-> d, opt |-> opt, env |-> env], r)
           /\ store' = r.store
           /\ UNCHANGED cfg

read ==
  /\ Call
  /\ \E path \in Paths \ {Root}, opt \in ReadOptions, env \in ReadEnvs :
       /\ last' = Done("read", path, [opt |-> opt, env |-> env],
                       FileRead(store, cfg, path, opt, env))
       /\ UNCHANGED <<store, cfg>>

list ==
  /\ Call
  /\ \E path \in Paths, opt \in ListOptions, env \in ListEnvs :
       /\ last' = Done("list", path, [opt |-> opt, env |-> env],
                       DirList(store, cfg, path, opt, env))
       /\ UNCHANGED <<store, cfg>>

mkcol ==
  /\ Call
  /\ \E path \in Paths, opt \in MkcolOptions, env \in MkcolEnvs :
       LET r == DirMkcol(store, cfg, path, opt, env)
       IN  /\ last' = Done("mkcol", path, [opt |-> opt, env |-> env], r)
           /\ store' = r.store
           /\ UNCHANGED cfg

delete ==
  /\ Call
  /\ \E h \in Handles, opt \in DeleteOptions, eg \in BOOLEAN, env \in DeleteEnvs :
       LET r == EntryDelete(store, cfg, h, opt, eg, env)
       IN  /\ last' = Done("delete", h.path,
                           [kind |-> h.kind, opt |-> opt, eg |-> eg, env |-> env], r)
           /\ store' = r.store
           /\ UNCHANGED cfg

\* AbstractFileSystem.delete(path, options, errors)
fsDelete ==
  /\ Call
  /\ \E path \in DeletePaths, opt \in DeleteOptions, eg \in BOOLEAN, env \in DeleteEnvs :
       LET r == FsDelete(store, cfg, path, opt, eg, env,
                         FsGetEntry(store, cfg, path,
                                    [type |-> "", ignoreHook |-> opt.ignoreHook],
                                    eg, env.h))
       IN  /\ last' = Done("fsDelete", path, [opt |-> opt, eg |-> eg, env |-> env], r)
           /\ store' = r.store
           /\ UNCHANGED cfg

patch ==
  /\ Call
  /\ \E path \in PatchPaths, props \in PatchProps, opt \in PatchOptions,
        eg \in BOOLEAN, env \in PatchEnvs :
       LET r == FsPatch(store, cfg, path, props, opt, eg, env)
       IN  /\ last' = Done("patch", path,
                           [props |-> props, sent |-> r.sent, opt |-> opt, eg |-> eg,
                            env |-> env], r)
           /\ store' = r.store
           /\ UNCHANGED cfg

\* copy()/move(): the handles chosen for the source and the destination
prepareXmit ==
  /\ Call
  /\ \E gen \in Generations, fromPath \in RawPaths, toPath \in XmitTargets,
        env \in HeadEnvs :
       /\ last' = Done("prepareXmit", fromPath,
                       [gen |-> gen, toPath |-> toPath, env |-> env],
                       IF gen = "core"
                       THEN core_prepareXmit(store, cfg, fromPath, toPath, env)
                       ELSE _prepareXmit(store, cfg, fromPath, toPath, env))
       /\ UNCHANGED <<store, cfg>>

\* a directory copy reaching one of its children
xmitChildren ==
  /\ Call
  /\ \E gen \in Generations, child \in Paths \ {Root}, toDir \in XmitDirs,
        ignoreHook \in BOOLEAN, env \in HeadEnvs :
       /\ store[child].kind # "none"
       /\ last' = Done("xmitChild", child,
                       [gen |-> gen, toDir |-> toDir, ignoreHook |-> ignoreHook,
                        env |-> env],
                       IF gen = "core"
                       THEN core_xmitChild(store, cfg, child, toDir, env)
                       ELSE xmitChild(store, cfg, child, toDir,
                                      [ignoreHook |-> ignoreHook], env))
       /\ UNCHANGED <<store, cfg>>

\* a write stream is opened on a File handle
openStream ==
  /\ Call
  /\ \E path \in WritePaths, opt \in StreamOptions, env \in StreamEnvs :
       /\ last' = Done("openWriteStream", path, [opt |-> opt, env |-> env],
                       openWriteStream(store, cfg, path, opt, env))
       /\ UNCHANGED <<store, cfg>>

\* delete(options) on a handle, with DeleteOptions{force, recursive}
deleteTree ==
  /\ Call
  /\ \E h \in TreeHandles, opt \in TreeOptions, fails \in TreeFails,
        henv \in NestedHeadEnvs :
       LET r == Entry_delete(store, cfg, h, opt, fails, henv)
       IN  /\ last' = [op |-> "deleteTree", path |-> h.path,
                       in |-> [kind |-> h.kind, opt |-> opt, fails |-> fails,
                               env |-> [h |-> henv], errors |-> r.errors,
                               removed |-> r.removed],
                       calls |-> <<>>, thrown |-> r.thrown,
                       errs |-> [i \in 1..Len(r.errors) |-> r.errors[i].kind],
                       ret |-> {}, pre |-> store]
           /\ store' = r.store
           /\ UNCHANGED cfg

\* rm(options) on an object of the Node backend
nodeRm ==
  /\ Call
  /\ \E path \in RmPaths, opt \in TreeOptions, fault \in BOOLEAN :
       LET r == rm(store, path, opt, fault)
       IN  /\ last' = Done("rm", path, [opt |-> opt, fault |-> fault], r)
           /\ store' = r.store
           /\ UNCHANGED cfg

\* setTimes(times) on an object of the Node backend
nodeSetTimes ==
  /\ Call
  /\ \E path \in RmPaths, times \in NodeTimes, fault \in BOOLEAN :
       LET r == setTimes(store, path, times, fault)
       IN  /\ last' = Done("setTimes", path, [props |-> times, fault |-> fault], r)
           /\ store' = r.store
           /\ UNCHANGED cfg

\* copy(to, options) or move(to, options) on a File handle
copyFile ==
  /\ Call
  /\ \E from \in CopySources, to \in CopyTargets, toKind \in {"file", "dir"},
        opt \in XmitOptions, env \in XmitEnvs, g \in FileGenerations :
       LET r == IF g = "stream" THEN AbstractFile_xmit(store, cfg, from, to, toKind, opt, env)
                ELSE File_xmit(store, cfg, from, to, toKind, opt, env)
       IN  /\ last' = Done("copyFile", from,
                           [to |-> to, toKind |-> toKind, opt |-> opt, env |-> env,
                            gen |-> g], r)
           /\ store' = r.store
           /\ UNCHANGED cfg

\* copy(to, options) or move(to, options) on a handle, down the tree
xmitTree ==
  /\ Call
  /\ \E h \in WalkSources, to \in WalkTargets, call \in WalkCalls, fails \in WalkFails,
        unwritten \in {"kept", "empty"} :
       LET r == IF call.gen = "core"
                THEN coreXmit(store, h, to, call.move, fails, unwritten)
                ELSE entryXmit(store, cfg, h, to, call.opt, fails)
       IN  /\ call.gen = "current" => unwritten = "kept"
           /\ last' = [op |-> "xmitTree", path |-> h.path,
                       in |-> [gen |-> call.gen, kind |-> h.kind, to |-> to,
                               move |-> call.move, opt |-> call.opt, fails |-> fails,
                               unwritten |-> unwritten, errors |-> r.errors,
                               log |-> r.log],
                       calls |-> <<>>, thrown |-> r.thrown,
                       errs |-> [i \in 1..Len(r.errors) |-> r.errors[i].kind],
                       ret |-> {}, pre |-> store]
           /\ store' = r.store
           /\ UNCHANGED cfg

\* move(to, options, errors) on a handle of the current core
moveEntry ==
  /\ Call
  /\ \E h \in Handles, to \in MoveTargets, opt \in MoveOptions, eg \in BOOLEAN,
        env \in DeleteEnvs, copies \in BOOLEAN :
       LET r == Entry_move(store, cfg, h, to, opt, eg, env, copies)
       IN  /\ last' = Done("move", h.path,
                           [kind |-> h.kind, to |-> to, opt |-> opt, eg |-> eg,
                            env |-> env, copies |-> copies], r)
           /\ store' = r.store
           /\ UNCHANGED cfg

\* the caller takes the result
\* an operation on the stream of one File
StreamCall ==
  /\ phase = "idle" /\ nOps < MaxStreamOps /\ nOps' = nOps + 1
  /\ UNCHANGED <<cfg, phase, tasks>>

StreamDone(op, in, thrown) ==
  [op |-> op, path |-> stream.path, in |-> in, calls |-> <<>>, thrown |-> thrown,
   errs |-> <<>>, ret |-> {}, pre |-> store]

\* a stream is opened on a File handle
streamOpen ==
  /\ StreamCall
  /\ stream.mode = "none"
  /\ \E o \in StreamOpenings, path \in StreamPaths, opt \in StreamOptions :
       LET r == IF o.mode = "read" THEN openReadStream(store, cfg, path, opt)
                ELSE IF o.gen = "first"
                  THEN File_openWriteStream(cfg, CoreHead(store, cfg, path, CalmHead))
                ELSE openWriteStream(store, cfg, path, opt, CalmOpening)
       IN  /\ o.gen = "first" => opt = [create |-> "", ignoreHook |-> FALSE]
           /\ o.mode = "read" => opt.create = ""
           /\ stream' = IF o.mode = "read" THEN ReadStreamOf(path, opt, r)
                        ELSE IF o.gen = "first" THEN FirstStreamOf(path, r)
                        ELSE WriteStreamOf(o.gen, path, opt, r)
           /\ last' = [op |-> "streamOpen", path |-> path,
                       in |-> [gen |-> o.gen, mode |-> o.mode, opt |-> opt],
                       calls |-> r.calls, thrown |-> r.thrown, errs |-> <<>>,
                       ret |-> {}, pre |-> store]
           /\ UNCHANGED store

\* write(src) on the open write stream
streamWrite ==
  /\ StreamCall
  /\ stream.mode = "write" /\ stream.gen \in {"abstract", "core"} /\ stream.closes = 0
  /\ \E src \in Contents, fault \in BOOLEAN :
       LET r == IF stream.gen = "abstract"
                  THEN AbstractWriteStream_write(stream, store, src, fault)
                ELSE WriteStream_write(stream, store, src, fault)
       IN  /\ stream.position + Len(src) <= MaxLen
           /\ stream' = r.stream
           /\ store' = r.store
           /\ last' = StreamDone("streamWrite", [src |-> src, fault |-> fault,
                                                 before |-> stream], r.thrown)

\* truncate(size), setLength(len) in core.ts, on the open write stream
streamTruncate ==
  /\ StreamCall
  /\ stream.mode = "write" /\ stream.gen \in {"abstract", "core"} /\ stream.closes = 0
  /\ \E size \in 0..MaxLen, fault \in BOOLEAN :
       LET r == IF stream.gen = "abstract"
                  THEN AbstractWriteStream_truncate(stream, store, size, fault)
                ELSE WriteStream_setLength(stream, store, size)
       IN  /\ stream' = r.stream
           /\ store' = r.store
           /\ last' = StreamDone("streamTruncate", [size |-> size, fault |-> fault,
                                                    before |-> stream], r.thrown)

\* seek(offset, origin) on the open stream of the stream generation
streamSeek ==
  /\ StreamCall
  /\ stream.gen = "abstract" /\ stream.closes = 0
  /\ \E offset \in SeekOffsets, origin \in SeekOrigins, henv \in NestedHeadEnvs,
        fault \in BOOLEAN :
       LET r == AbstractStream_seek(stream, store, offset, origin,
                                    CoreHead(store, cfg, stream.path, henv), fault)
       IN  /\ stream' = r.stream
           /\ last' = StreamDone("streamSeek",
                                 [offset |-> offset, origin |-> origin, henv |-> henv,
                                  fault |-> fault, before |-> stream], r.thrown)
           /\ UNCHANGED store

\* close() on the stream, closed before or not
streamClose ==
  /\ StreamCall
  /\ stream.mode # "none"
  /\ \E fault \in BOOLEAN :
       LET r == StreamClose(stream, cfg, store, fault)
       IN  /\ stream' = r.stream
           /\ last' = StreamDone("streamClose", [fault |-> fault, before |-> stream],
                                 r.thrown)
           /\ UNCHANGED store

\* normalizePath(path) on any string
normalize ==
  /\ Call
  /\ \E path \in PathStrings :
       LET r == normalizePath(path)
       IN  last' = [op |-> "normalizePath", path |-> path, in |-> <<>>, calls |-> <<>>,
                    thrown |-> r.err, errs |-> <<>>,
                    ret |-> IF r.err = "" THEN {r.path} ELSE {}, pre |-> <<>>]
  /\ UNCHANGED <<store, cfg>>

\* normalizePath on what normalizePath returned
normalizeAgain ==
  /\ phase = "done" /\ last.op = "normalizePath" /\ last.thrown = ""
  /\ \E path \in last.ret :
       LET r == normalizePath(path)
       IN  last' = [op |-> "normalizeAgain", path |-> path, in |-> [first |-> last.path],
                    calls |-> <<>>, thrown |-> r.err, errs |-> <<>>,
                    ret |-> IF r.err = "" THEN {r.path} ELSE {}, pre |-> <<>>]
  /\ UNCHANGED <<store, cfg, phase, nOps, stream, tasks>>

Return ==
  /\ phase = "done"
  /\ phase' = "idle"
  /\ last' = Idle
  /\ UNCHANGED <<store, cfg, nOps, stream, tasks>>

Next ==
  \/ head \/ getFile \/ getDirectory \/ toURL \/ patch \/ nodeSetTimes
  \/ write \/ read \/ openStream \/ copyFile
  \/ list \/ mkcol
  \/ delete \/ fsDelete \/ deleteTree \/ nodeRm
  \/ prepareXmit \/ xmitChildren \/ xmitTree \/ moveEntry
  \/ Return

Spec == Init /\ [][Next]_vars

\* The life of one stream: opened, written, truncated, sought, closed
StreamNext == streamOpen \/ streamWrite \/ streamTruncate \/ streamSeek \/ streamClose

StreamSpec == Init /\ [][StreamNext]_vars

(* The copy of one file, statement by statement: AbstractFile._xmit of
   core.ts and of AbstractFile.ts.  tasks is the record of that one call. *)

PlainConfig == [hooks |-> {}, dirs |-> TRUE, caps |-> {"accessed", "modified"}]

\* _xmit is entered: no stream yet, nothing pending, no result delivered
CopyTasks ==
  [gen : {"core", "stream"}, force : BOOLEAN, move : BOOLEAN, pc : {"head"},
   rs : {"none"}, ws : {"none"}, err : {""}, out : {""}]

CopyInit ==
  /\ cfg = PlainConfig
  /\ store = InitStore(cfg.dirs)
  /\ last = Idle
  /\ phase = "idle"
  /\ nOps = 0
  /\ stream = NoStream
  /\ tasks \in CopyTasks

CopyStep(t) ==
  /\ tasks' = t
  /\ UNCHANGED <<store, cfg, last, phase, nOps, stream>>

\* the result of _xmit reaches the caller
Delivered(t, e) == [t EXCEPT !.pc = "done", !.out = IF e = "" THEN "returned" ELSE "thrown",
                            !.err = e]

\* await this.head(); in AbstractFile.ts then, unless force, to.head() has to
\* fail with NotFoundError
copyHead ==
  /\ tasks.pc = "head"
  /\ \E from \in {"file", "absent"}, to \in {"file", "absent", "fault"} :
       CopyStep(IF from = "absent" THEN Delivered(tasks, "NotFoundError")
                ELSE IF tasks.gen = "stream" /\ ~tasks.force /\ to = "file"
                  THEN Delivered(tasks, "PathExistsError")
                ELSE IF tasks.gen = "stream" /\ ~tasks.force /\ to = "fault"
                  THEN Delivered(tasks, "NotReadableError")
                ELSE [tasks EXCEPT !.pc = "openRead"])

\* const rs = await this.openReadStream(...) / createReadStream(...)
copyOpenRead ==
  /\ tasks.pc = "openRead"
  /\ \E fault \in BOOLEAN :
       CopyStep(IF fault THEN Delivered(tasks, "NotReadableError")
                ELSE [tasks EXCEPT !.rs = "open", !.pc = "toStat"])

\* try { await to.stat() }: NotFoundError chooses create, any other failure
\* leaves through the finally of rs
copyToStat ==
  /\ tasks.pc = "toStat"
  /\ \E to \in {"file", "absent", "fault"} :
       CopyStep(IF to = "fault"
                  THEN [tasks EXCEPT !.err = "NotReadableError", !.pc = "closeRs"]
                ELSE [tasks EXCEPT !.pc = "openWrite"])

\* const ws = await to.openWriteStream(...) / createWriteStream(...)
copyOpenWrite ==
  /\ tasks.pc = "openWrite"
  /\ \E fault \in BOOLEAN :
       CopyStep(IF fault
                  THEN [tasks EXCEPT !.err = "NoModificationAllowedError",
                                     !.pc = "closeRs"]
                ELSE [tasks EXCEPT !.ws = "open", !.pc = "transfer"])

\* AbstractFile.ts: await rs.pipe(ws), which may fail; core.ts: the loop over
\* rs.read() that never runs
copyTransfer ==
  /\ tasks.pc = "transfer"
  /\ \E fault \in BOOLEAN :
       CopyStep(IF fault /\ tasks.gen = "stream"
                  THEN [tasks EXCEPT !.err = "NotReadableError", !.pc = "closeWs"]
                ELSE [tasks EXCEPT !.pc = "closeWs"])

\* what close() leaves of a stream at the statement after it: awaited
\* (AbstractFile.ts) it is closed or has failed to, not awaited (core.ts) it
\* is still closing
closeCalled(gen, fault) ==
  IF gen = "core" THEN "closing" ELSE IF fault THEN "failed" ELSE "closed"

\* finally { await ws.close() } / finally { ws.close() }
copyCloseWs ==
  /\ tasks.pc = "closeWs"
  /\ \E fault \in BOOLEAN :
       CopyStep([tasks EXCEPT !.ws = closeCalled(tasks.gen, fault),
                              !.err = IF fault /\ tasks.gen = "stream"
                                      THEN "NativeError" ELSE @,
                              !.pc = "closeRs"])

\* finally { await rs.close() } / finally { rs.close() }, then the pending
\* error is thrown, or the move's delete follows, or _xmit returns
copyCloseRs ==
  /\ tasks.pc = "closeRs"
  /\ \E fault \in BOOLEAN :
       CopyStep(IF fault /\ tasks.gen = "stream"
                  THEN [Delivered(tasks, "NativeError") EXCEPT !.rs = "failed"]
                ELSE IF tasks.err # ""
                  THEN [Delivered(tasks, tasks.err)
                          EXCEPT !.rs = closeCalled(tasks.gen, FALSE)]
                ELSE IF tasks.move
                  THEN [tasks EXCEPT !.rs = closeCalled(tasks.gen, FALSE),
                                     !.pc = "delete"]
                ELSE [Delivered(tasks, "") EXCEPT !.rs = closeCalled(tasks.gen, FALSE)])

\* if (move): await this.delete() with its failure caught (AbstractFile.ts),
\* an empty try (core.ts)
copyDelete ==
  /\ tasks.pc = "delete"
  /\ CopyStep(Delivered(tasks, ""))

\* the backend finishes a close() that nobody awaited
closeCompletes ==
  /\ \E f \in {"rs", "ws"} :
       /\ tasks[f] = "closing"
       /\ CopyStep([tasks EXCEPT ![f] = "closed"])

CopyNext ==
  \/ copyHead \/ copyOpenRead \/ copyToStat \/ copyOpenWrite \/ copyTransfer
  \/ copyCloseWs \/ copyCloseRs \/ copyDelete \/ closeCompletes

CopySpec == CopyInit /\ [][CopyNext]_vars

(* The walk of AbstractDirectory._xmit, call by call, over a tree that the
   walk itself extends.  A path is here the sequence of its names; tasks holds
   the tree, the stack of _xmit calls, and the nodes visited. *)

\* p lies at or below q
Within(p, q) == Len(q) <= Len(p) /\ SubSeq(p, 1, Len(q)) = q

\* list(): the entries directly below dir, at the time of the call
Listed(t, dir) ==
  {p \in t.dirs \cup t.files : Len(p) = Len(dir) + 1 /\ Within(p, dir)}

\* the source tree "/a" with the file "/a/b" and the directory "/a/a" holding
\* "/a/a/b"
TreeDirs == {<<"a">>, <<"a", "a">>}
TreeFiles == {<<"a", "b">>, <<"a", "a", "b">>}
\* destinations: beside the source, inside it, and inside its subdirectory
WalkDests == {<<"c">>, <<"a", "c">>, <<"a", "a", "c">>}

\* a _xmit call that has not yet listed its directory
Frame(from, to) == [from |-> from, to |-> to, listed |-> FALSE, todo |-> {}]

WalkInit ==
  /\ cfg = PlainConfig
  /\ store = InitStore(cfg.dirs)
  /\ last = Idle
  /\ phase = "idle"
  /\ nOps = 0
  /\ stream = NoStream
  /\ \E to \in WalkDests :
       tasks = [dirs |-> TreeDirs, files |-> TreeFiles, source |-> TreeDirs \cup TreeFiles,
                to |-> to, stack |-> <<Frame(<<"a">>, to)>>, seen |-> <<>>]

WalkStep(t) ==
  /\ tasks' = t
  /\ UNCHANGED <<store, cfg, last, phase, nOps, stream>>

Top == tasks.stack[Len(tasks.stack)]

\* _xmit of a directory up to its loop: toDir.mkcol(), then this.list()
walkEnter ==
  /\ tasks.stack # <<>> /\ ~Top.listed
  /\ Len(Top.to) <= MaxPathLen
  /\ WalkStep([tasks EXCEPT
       !.dirs = @ \cup {Top.to},
       !.seen = Append(@, Top.from),
       !.stack[Len(tasks.stack)] =
          [Top EXCEPT !.listed = TRUE,
                      !.todo = Listed([tasks EXCEPT !.dirs = @ \cup {Top.to}], Top.from)]])

\* one turn of the loop: the child is a file and is copied, or a directory and
\* its _xmit is called; the backend chooses the order of the list
walkChild ==
  /\ tasks.stack # <<>> /\ Top.listed
  /\ \E child \in Top.todo :
       LET toPath == Append(Top.to, child[Len(child)])
           rest == [Top EXCEPT !.todo = @ \ {child}]
       IN  /\ Len(toPath) <= MaxPathLen
           /\ WalkStep(IF child \in tasks.files
                         THEN [tasks EXCEPT !.files = @ \cup {toPath},
                                            !.seen = Append(@, child),
                                            !.stack[Len(tasks.stack)] = rest]
                       ELSE [tasks EXCEPT
                               !.stack = Append([@ EXCEPT ![Len(tasks.stack)] = rest],
                                                Frame(child, toPath))])

\* the loop is over: _xmit returns to its caller
walkLeave ==
  /\ tasks.stack # <<>> /\ Top.listed /\ Top.todo = {}
  /\ WalkStep([tasks EXCEPT !.stack = SubSeq(@, 1, Len(@) - 1)])

WalkNext == walkEnter \/ walkChild \/ walkLeave

WalkSpec == WalkInit /\ [][WalkNext]_vars

(* Two calls in flight on one path, await by await: AbstractFile.write of the
   current core and AbstractFile.createWriteStream.  tasks holds the path and
   the two calls. *)

RacePaths == {<<"", "c">>, <<"", "b">>}
RaceOptions == {"", "true", "false"}

\* a call that has been made and has not run yet: what it writes, its create
\* option, the hooks it called, the create it decided on and the one it gave
\* the backend, what its after hook saw, and how it ended
NewCall(kind, create, src) ==
  [kind |-> kind, opt |-> create, src |-> src, pc |-> "head", create |-> FALSE,
   fired |-> <<>>, mode |-> {}, saw |-> {}, out |-> ""]

RaceInit ==
  /\ cfg \in {c \in Configs : c.dirs}
  /\ store = InitStore(cfg.dirs)
  /\ last = Idle
  /\ phase = "idle"
  /\ nOps = 0
  /\ stream = NoStream
  /\ \E path \in RacePaths, k1, k2 \in {"write", "open"}, o1, o2 \in RaceOptions :
       tasks = [path |-> path,
                calls |-> <<NewCall(k1, o1, <<"x">>), NewCall(k2, o2, <<"y">>)>>]

RaceStep(i, t, st) ==
  /\ tasks' = [tasks EXCEPT !.calls[i] = t]
  /\ store' = st
  /\ UNCHANGED <<cfg, last, phase, nOps, stream>>

Ended(t, out) == [t EXCEPT !.pc = "done", !.out = out]

\* the existence check of write and of createWriteStream, and what follows
\* from it: PathExistError, NotFoundError, or create = true/false
existenceChecked(t, exists) ==
  IF exists /\ t.opt = "true" THEN Ended(t, "PathExistError")
  ELSE IF ~exists /\ t.opt = "false" THEN Ended(t, "NotFoundError")
  ELSE [t EXCEPT !.create = ~exists, !.pc = "before"]

\* await this.head() / await this.stat()
raceHead ==
  \E i \in {1, 2} :
    /\ tasks.calls[i].pc = "head"
    /\ RaceStep(i, existenceChecked(tasks.calls[i], store[tasks.path].kind = "file"),
                store)

\* the before hook by the create decided on: beforePost or beforePut; a truthy
\* answer ends the call
beforeCalled(t, c, handled) ==
  LET name == IF t.create THEN "beforePost" ELSE "beforePut"
  IN  IF name \notin c.hooks THEN [t EXCEPT !.pc = "primitive"]
      ELSE IF handled THEN Ended([t EXCEPT !.fired = Append(@, name)], "returned")
      ELSE [t EXCEPT !.fired = Append(@, name), !.pc = "primitive"]

\* if (create) { if (this.beforePost) { if (await this.beforePost(...)) return } }
raceBefore ==
  \E i \in {1, 2}, handled \in BOOLEAN :
    /\ tasks.calls[i].pc = "before"
    /\ RaceStep(i, beforeCalled(tasks.calls[i], cfg, handled), store)

\* a call that looks again before it goes to the backend
modeAtBackend_rechecked(t, exists) == ~exists

\* options = { ..., create }: the create given to _write/_createWriteStream is
\* the one decided at the existence check
modeAtBackend(t, exists) == t.create

\* the call once the backend has answered: write goes on to its after hook,
\* createWriteStream returns the stream
primitiveDone(t, mode, ok) ==
  IF ~ok THEN Ended([t EXCEPT !.mode = {mode}], "NativeError")
  ELSE IF t.kind = "open" THEN Ended([t EXCEPT !.mode = {mode}], "returned")
  ELSE [t EXCEPT !.mode = {mode}, !.pc = "after"]

\* await this._write(src, options) / await this._createWriteStream(options): a
\* backend told to create what is already there overwrites it or refuses
racePrimitive ==
  \E i \in {1, 2}, refuse \in BOOLEAN :
    LET t == tasks.calls[i]
        exists == store[tasks.path].kind = "file"
        mode == modeAtBackend(t, exists)
        ok == ~(refuse /\ mode /\ exists)
    IN  /\ t.pc = "primitive"
        /\ refuse => mode /\ exists
        /\ RaceStep(i, primitiveDone(t, mode, ok),
                    IF ok /\ t.kind = "write"
                      THEN [store EXCEPT ![tasks.path] = FileOf(t.src)]
                    ELSE store)

\* this.afterPost(path, src).catch(...) or this.afterPut(...): called, not
\* awaited; write returns
afterCalled(t, c) ==
  LET name == IF t.create THEN "afterPost" ELSE "afterPut"
  IN  IF name \notin c.hooks THEN Ended(t, "returned")
      ELSE [t EXCEPT !.fired = Append(@, name), !.out = "returned", !.pc = "hooked"]

raceAfter ==
  \E i \in {1, 2} :
    /\ tasks.calls[i].pc = "after"
    /\ RaceStep(i, afterCalled(tasks.calls[i], cfg), store)

\* the after hook, running beside the caller, looks at the path
raceObserve ==
  \E i \in {1, 2} :
    /\ tasks.calls[i].pc = "hooked"
    /\ RaceStep(i, [tasks.calls[i] EXCEPT !.saw = {store[tasks.path]}, !.pc = "done"],
                store)

RaceNext == raceHead \/ raceBefore \/ racePrimitive \/ raceAfter \/ raceObserve

RaceSpec == RaceInit /\ [][RaceNext]_vars

\* normalizePath applied to strings, and to its own results
PathNext == normalize \/ normalizeAgain \/ Return

PathSpec == Init /\ [][PathNext]_vars

----------------------------------------------------------------------------
(* The hook protocol, read off the record of the last call *)

HookedOps == {"head", "list", "mkcol", "delete", "patch", "read", "write"}

BeforeHooks(op) ==
  CASE op = "head" -> {"beforeHead"}
    [] op = "list" -> {"beforeList"}
    [] op = "mkcol" -> {"beforeMkcol"}
    [] op = "delete" -> {"beforeDelete"}
    [] op = "patch" -> {"beforePatch"}
    [] op = "read" -> {"beforeGet"}
    [] op = "write" -> {"beforePost", "beforePut"}

AfterHooks(op) ==
  CASE op = "head" -> {"afterHead"}
    [] op = "list" -> {"afterList"}
    [] op = "mkcol" -> {"afterMkcol"}
    [] op = "delete" -> {"afterDelete"}
    [] op = "patch" -> {"afterPatch"}
    [] op = "read" -> {"afterGet"}
    [] op = "write" -> {"afterPost", "afterPut"}

Primitive(op) ==
  CASE op = "head" -> "_head"
    [] op = "list" -> "_list"
    [] op = "mkcol" -> "_mkcol"
    [] op = "delete" -> "_delete"
    [] op = "patch" -> "_patch"
    [] op = "read" -> "_getSource"
    [] op = "write" -> "_write"

\* what a before hook can hand back that is not null
NonNullAnswers == {"file", "dir", "nil", "list", "false", "true", "empty", "data"}

Called(S) == \E i \in 1..Len(last.calls) : last.calls[i] \in S

\* the caller passed ignoreHook = true
OptsOut ==
  /\ last.op \in {"head", "list", "mkcol", "delete", "patch", "read"}
  /\ last.in.opt.ignoreHook

\* the before hook of the operation ran and returned a non-null value
BeforeAnswered ==
  /\ last.op \in HookedOps
  /\ ~OptsOut
  /\ Called(BeforeHooks(last.op))
  /\ last.in.env.before \in NonNullAnswers

\* C1: when a registered before hook returns a non-null value and ignoreHook
\* is not set, the backend primitive of the operation is not invoked.
C1_BeforeSkipsPrimitive == BeforeAnswered => ~Called({Primitive(last.op)})

\* C2: when a before hook short-circuits by returning a non-null result, the
\* matching after hook is not invoked in that call.
C2_ShortCircuitSkipsAfter == BeforeAnswered => ~Called(AfterHooks(last.op))

\* C3: when an after hook throws, the operation still completes: nothing is
\* thrown to the caller and nothing is pushed onto the errors list.
C3_AfterFailureSwallowed ==
  (/\ last.op \in HookedOps
   /\ Called(AfterHooks(last.op))
   /\ last.in.env.after = "throw")
  => last.thrown = "" /\ last.errs = <<>>

\* C4: an after hook is invoked only after the backend primitive of the same
\* call has run to completion.
C4_AfterOnlyAfterPrimitive ==
  (last.op \in HookedOps /\ Called(AfterHooks(last.op)))
  => \E i, j \in 1..Len(last.calls) :
       /\ i < j
       /\ last.calls[i] = Primitive(last.op)
       /\ last.calls[j] \in AfterHooks(last.op)

\* C5: with ignoreHook = true no before hook and no after hook is invoked.
C5_IgnoreHookSilencesHooks ==
  OptsOut => \A i \in 1..Len(last.calls) : last.calls[i] \notin AllHooks

----------------------------------------------------------------------------
(* head *)

Valid(path) == ~INVALID_CHARS(path) /\ normalizePath(path).err = ""
Absent(st, path) ==
  /\ Valid(path)
  /\ normalizePath(path).path # Root
  /\ st[normalizePath(path).path].kind = "none"

FailedWith(kind) ==
  /\ last.ret = {}
  /\ \/ last.thrown = kind /\ last.errs = <<>>
     \/ last.thrown = "" /\ last.errs = <<kind>>

\* head asked for a directory (by option or by trailing separator) on a
\* backend without directories
FlatDirectoryHead ==
  /\ ~cfg.dirs
  /\ \/ last.in.opt.type = "directory"
     \/ last.in.opt.type = "" /\ endsWithSlash(last.path)

\* a beforeHead hook ran and did not pass (it supplied Stats, or threw)
HookInterferes ==
  /\ Registered(cfg, last.in.opt.ignoreHook, "beforeHead")
  /\ last.in.env.before # "null"

\* C6 as stated: head of a path that does not exist fails with NotFound and
\* returns no Stats, for every path and every options value.
C6_AbsentIsNotFound_AsStated ==
  (last.op = "head" /\ Absent(last.pre, last.path)) => FailedWith("NotFoundError")

\* C6: head of a valid path that does not exist fails with NotFound (thrown,
\* or pushed onto the caller's error list with null returned) and returns no
\* Stats, whenever the backend primitive is consulted and reports the absence:
\* no beforeHead hook answers or throws, the backend does not fail otherwise,
\* and the head is not a directory head on a backend without directories.
C6_AbsentIsNotFound ==
  (/\ last.op = "head"
   /\ Absent(last.pre, last.path)
   /\ ~FlatDirectoryHead
   /\ ~HookInterferes
   /\ ~last.in.env.fault)
  => FailedWith("NotFoundError")

C6_Witness ==
  /\ last.op = "head"
  /\ Absent(last.pre, last.path)
  /\ "beforeHead" \in cfg.hooks
  /\ last.in.opt.type = "file"
  /\ last.calls = <<"beforeHead", "_head">>
  /\ last.errs = <<"NotFoundError">>

\* the Stats the head works on: the hook's, or else the backend's
Obtained ==
  IF Registered(cfg, last.in.opt.ignoreHook, "beforeHead")
     /\ HookStats(last.in.env.before) # {}
  THEN HookStats(last.in.env.before)
  ELSE B_head(last.pre, normalizePath(last.path).path, FALSE).stats

TypedHead ==
  /\ last.op = "head"
  /\ Valid(last.path)
  /\ last.in.opt.type \in {"file", "directory"}

SizesAgree ==
  (TypedHead /\ last.thrown = "" /\ last.ret # {})
  => LET s == CHOOSE x \in last.ret : TRUE
     IN  (last.in.opt.type = "file") <=> (s.size # {})

MismatchSeen ==
  /\ TypedHead
  /\ ~last.in.env.fault
  /\ ~(Registered(cfg, last.in.opt.ignoreHook, "beforeHead")
       /\ last.in.env.before = "throw")
  /\ Obtained # {}
  /\ Mismatch(CHOOSE x \in Obtained : TRUE, last.in.opt.type)

\* C7 as stated: a typed head returns Stats whose size is defined exactly for
\* type File, and a mismatch with the entry's kind fails with TypeMismatch,
\* for hook and backend Stats alike and for every backend capability.
C7_TypedHead_AsStated ==
  /\ SizesAgree
  /\ MismatchSeen => FailedWith("TypeMismatchError")

\* C7: a typed head returns Stats whose size is defined exactly for type File;
\* a mismatch between the requested type and the Stats of the hook or the
\* backend fails with TypeMismatch, except that a Directory head on a backend
\* without directories returns empty Stats without looking at the entry.
C7_TypedHead ==
  /\ SizesAgree
  /\ (MismatchSeen /\ ~FlatDirectoryHead) => FailedWith("TypeMismatchError")

C7_Witness ==
  /\ last.op = "head"
  /\ cfg.dirs
  /\ cfg.hooks = {}
  /\ last.in.opt.type = "file"
  /\ last.pre[normalizePath(last.path).path].kind = "dir"
  /\ last.calls = <<"_head">>
  /\ last.thrown = "TypeMismatchError"

----------------------------------------------------------------------------
(* copy and move *)

\* C8: an entry is handled as a File exactly when its Stats carry a size,
\* 0 included: copy and move pick File handles for source and destination then,
\* at top level and for a child of a directory walk.
C8_SizeDecidesHandle ==
  (last.op \in {"prepareXmit", "xmitChild"} /\ last.thrown = "" /\ last.ret # {})
  => LET p == CHOOSE x \in last.ret : TRUE
     IN  /\ (p.from.kind = "file") <=> (p.stats.size # {})
         /\ (p.to.kind = "file") <=> (p.stats.size # {})

----------------------------------------------------------------------------
(* handles *)

Benign == [before |-> "null", after |-> "ok", fault |-> FALSE]

\* C9: getFile and getDirectory call no primitive and no hook and leave the
\* store as it was; for every valid path, existing or not, they return a
\* handle of their type on the normalized path, and the absence of the entry
\* shows only when the handle is first used.
C9_HandlesAreLazy ==
  (last.op \in {"getFile", "getDirectory"})
  => /\ last.calls = <<>>
     /\ store = last.pre
     /\ Valid(last.path)
        => /\ last.thrown = "" /\ last.errs = <<>>
           /\ last.ret = {[kind |-> IF last.op = "getFile" THEN "file" ELSE "dir",
                           path |-> normalizePath(last.path).path]}
     /\ (last.op = "getFile" /\ Absent(store, last.path))
        => FileHead(store, [cfg EXCEPT !.dirs = TRUE],
                    (CHOOSE x \in last.ret : TRUE).path, Benign).thrown
             = "NotFoundError"

C9_Witness ==
  /\ last.op = "getFile"
  /\ Absent(store, last.path)
  /\ last.ret = {[kind |-> "file", path |-> <<"", "c">>]}

----------------------------------------------------------------------------
(* write, then head and read *)

HeadReports(n) ==
  LET h == FileHead(store, cfg, last.path, Benign)
  IN  h.thrown = "" /\ (CHOOSE x \in h.ret : TRUE).size = {n}

ReadReturns(d) ==
  LET r == FileRead(store, cfg, last.path,
                    [sourceType |-> "", ignoreHook |-> FALSE], Benign)
  IN  r.thrown = "" /\ (CHOOSE x \in r.ret : TRUE).bytes = d

NonAppendWrite ==
  /\ last.op = "write"
  /\ last.thrown = ""
  /\ last.in.opt.append # "true"

\* C10 as stated: after a successful non-append write of X, head reports the
\* size |X| and a full read returns X.
C10_WriteThenRead_AsStated ==
  NonAppendWrite => HeadReports(Len(last.in.data)) /\ ReadReturns(last.in.data)

\* C10: after a successful non-append write of X that reached the backend
\* primitive (no beforePost/beforePut hook answered in its place), head
\* reports the size |X| and a full read returns X, for every length from 0.
C10_WriteThenRead ==
  (NonAppendWrite /\ Called({"_write"}))
  => HeadReports(Len(last.in.data)) /\ ReadReturns(last.in.data)

C10_Witness ==
  /\ NonAppendWrite
  /\ Called({"_write"})
  /\ last.pre[last.path].kind = "file"
  /\ last.pre[last.path].data # <<>>
  /\ last.in.data = <<>>
  /\ HeadReports(0)

----------------------------------------------------------------------------
(* write with and without append *)

\* a write that returned normally on a path holding a file
WroteOver ==
  /\ last.op = "write"
  /\ last.thrown = ""
  /\ last.pre[last.path].kind = "file"

\* the content the write has to leave: the old bytes then the new ones on
\* append, the new ones alone otherwise
Expected ==
  IF last.in.opt.append = "true"
    THEN last.pre[last.path].data \o last.in.data
  ELSE last.in.data

\* C11 as stated: write(B, {append: true}) on an existing file of content A
\* leaves A followed by B, and a write without append leaves B.
C11_AppendExtends_AsStated ==
  WroteOver => store[last.path] = FileOf(Expected)

\* C11: a write(B) on an existing file of content A that reached the backend
\* primitive (no beforePut hook answered in its place) leaves A followed by B
\* when append is true and B alone when append is false or not given.
C11_AppendExtends ==
  (WroteOver /\ Called({"_write"})) => store[last.path] = FileOf(Expected)

C11_Witness ==
  /\ WroteOver
  /\ Called({"_write"})
  /\ last.in.opt.append = "true"
  /\ last.pre[last.path].data = <<"x">>
  /\ Len(last.in.data) = 2
  /\ store[last.path].data = <<"x">> \o last.in.data

----------------------------------------------------------------------------
(* create: true on a present path, create: false on an absent one *)

WriteLike == last.op \in {"write", "openWriteStream"}

WritePrimitives == {"_write", "_openWriteStream"}

\* the backend answers the existence check that opens the operation
ExistenceChecked == ~last.in.env.h.fault

\* C12: write(data, {create: true}), and opening a write stream with
\* create: true, on a path that holds a file fails with PathExists (the
\* backend answering the existence check); the backend's write primitive is
\* not invoked and the store, the file's content included, is as before.
C12_CreateOnExisting ==
  (/\ WriteLike
   /\ last.in.opt.create = "true"
   /\ last.pre[last.path].kind = "file"
   /\ ExistenceChecked)
  => /\ FailedWith("PathExistError")
     /\ ~Called(WritePrimitives)
     /\ store = last.pre

C12_Witness ==
  /\ last.op = "write"
  /\ last.in.opt.create = "true"
  /\ last.pre[last.path] = FileOf(<<"x">>)
  /\ last.in.data # <<"x">>
  /\ last.thrown = "PathExistError"
  /\ store[last.path] = FileOf(<<"x">>)

\* the existence check is answered by the backend: it does not fail and no
\* beforeHead hook answers in its place
ExistenceFromBackend ==
  /\ ExistenceChecked
  /\ ~("beforeHead" \in cfg.hooks /\ last.in.env.h.before # "null")

\* C13: write(data, {create: false}), and opening a write stream with
\* create: false, on an absent path fails with NotFound; neither the
\* backend's write primitive nor the beforePost/afterPost hooks are invoked
\* and the path stays absent.
C13_NoCreateOnAbsent ==
  (/\ WriteLike
   /\ last.in.opt.create = "false"
   /\ last.pre[last.path].kind = "none"
   /\ ExistenceFromBackend)
  => /\ FailedWith("NotFoundError")
     /\ ~Called(WritePrimitives \cup {"beforePost", "afterPost"})
     /\ store = last.pre
     /\ store[last.path].kind = "none"

C13_Witness ==
  /\ last.op = "openWriteStream"
  /\ last.in.opt.create = "false"
  /\ "beforePost" \in cfg.hooks
  /\ ~last.in.opt.ignoreHook
  /\ last.pre[last.path].kind = "none"
  /\ last.thrown = "NotFoundError"
  /\ "_head" \in {last.calls[i] : i \in 1..Len(last.calls)}

----------------------------------------------------------------------------
(* delete *)

Deletes == {"delete", "deleteTree"}

\* the caller asked not to be told of an absent entry: onNotExist = Ignore,
\* or force in the options of AbstractFile._delete/AbstractDirectory._delete
Forced ==
  IF last.op = "delete" THEN last.in.opt.onNotExist = "ignore" ELSE last.in.opt.force

\* the failure reached the caller, thrown or in the list it passed
Reported(kind) ==
  \/ last.thrown = kind
  \/ last.thrown = "" /\ last.errs = <<kind>>

\* the backend was not asked to remove anything
NothingRemoved ==
  /\ ~Called({"_delete"})
  /\ last.op = "deleteTree" => last.in.removed = <<>>

DeleteOfAbsentFile ==
  /\ last.op \in Deletes
  /\ last.in.kind = "file"
  /\ last.pre[last.path].kind = "none"
  /\ ExistenceFromBackend

\* C14: delete on a File handle whose path is absent fails with NotFound when
\* not forced (onNotExist = Error) and returns successfully, without the
\* backend's removal primitive being invoked, when forced; the store is
\* unchanged either way.
C14_DeleteAbsentFile ==
  DeleteOfAbsentFile
  => /\ store = last.pre
     /\ ~Forced => Reported("NotFoundError")
     /\ Forced => /\ last.thrown = "" /\ last.errs = <<>>
                  /\ NothingRemoved

\* strictly below
Below(p, q) == Len(p) > Len(q) /\ SubSeq(p, 1, Len(q)) = q

Position(seq, p) == CHOOSE i \in 1..Len(seq) : seq[i] = p

RecursiveDelete ==
  /\ last.op = "deleteTree"
  /\ last.in.kind = "dir"
  /\ last.in.opt.recursive
  /\ last.pre[last.path].kind = "dir"
  /\ ExistenceFromBackend

\* what the tree held before the call
TreeBefore == {p \in Subtree(last.path) : last.pre[p].kind # "none"}

\* C15: after delete with recursive = true on a directory tree in which no
\* removal fails, the directory and every descendant, files and nested
\* directories at any depth, are absent, nothing outside the tree is touched,
\* and each directory is removed only after all of its children.
C15_RecursiveDeleteRemovesAll ==
  (RecursiveDelete /\ last.in.fails = {})
  => /\ last.thrown = "" /\ last.errs = <<>>
     /\ \A p \in Subtree(last.path) : store[p].kind = "none"
     /\ \A p \in Paths \ Subtree(last.path) : store[p] = last.pre[p]
     /\ {last.in.removed[i] : i \in 1..Len(last.in.removed)} = TreeBefore
     /\ Len(last.in.removed) = Cardinality(TreeBefore)
     /\ \A p, q \in TreeBefore :
          Below(p, q) => Position(last.in.removed, p) < Position(last.in.removed, q)

C15_Witness ==
  /\ RecursiveDelete
  /\ last.in.fails = {}
  /\ last.path = <<"", "a">>
  /\ Len(last.in.removed) = 4
  /\ last.in.removed[4] = <<"", "a">>
  /\ last.pre[<<"", "a", "a", "b">>].kind = "file"
  /\ store[<<"", "a", "a", "b">>].kind = "none"

\* the one entry of the tree whose removal the backend fails
Failing == CHOOSE f \in last.in.fails : TRUE

ForcedDeleteWithOneFailure ==
  /\ RecursiveDelete
  /\ last.in.opt.force
  /\ last.in.fails # {}
  /\ Failing \in TreeBefore
  /\ Below(Failing, last.path)

\* C16: delete with recursive and force on a tree where the removal of exactly
\* one descendant fails: every other descendant (the directories above the
\* failing one, which cannot become empty, aside) is still removed, and the
\* failure of that descendant is in the error list filled for the caller.
C16_ForcedDeleteListsFailure ==
  ForcedDeleteWithOneFailure
  => /\ \A p \in TreeBefore \ {last.path} :
          (p # Failing /\ ~Below(Failing, p)) => store[p].kind = "none"
     /\ \E i \in 1..Len(last.in.errors) : last.in.errors[i].path = Failing

\* a directory with children is deleted without recursive, by the walk of
\* AbstractDirectory._delete or by the Node backend's rm
FlatDeleteOfNonEmpty ==
  /\ \/ last.op = "rm"
     \/ last.op = "deleteTree" /\ last.in.kind = "dir" /\ ExistenceFromBackend
  /\ ~last.in.opt.recursive
  /\ last.pre[last.path].kind = "dir"
  /\ Children(last.pre, last.path) # {}

\* C17: delete on a non-empty directory with recursive = false fails with
\* InvalidModification and removes nothing: the directory and all its
\* children are as before.
C17_NonEmptyNeedsRecursive ==
  FlatDeleteOfNonEmpty
  => /\ last.thrown = "InvalidModificationError"
     /\ store = last.pre

C17_Witness ==
  /\ last.op = "rm"
  /\ FlatDeleteOfNonEmpty
  /\ ~last.in.fault
  /\ last.path = <<"", "a">>
  /\ last.thrown = "InvalidModificationError"
  /\ store[<<"", "a", "b">>] = FileOf(<<"x">>)

----------------------------------------------------------------------------
(* patch *)

\* the size head reports for a path, {} for a directory or an absent path
SizeOf(st, p) ==
  IF B_head(st, p, FALSE).err # "" THEN {}
  ELSE (CHOOSE x \in B_head(st, p, FALSE).stats : TRUE).size

\* C18: patch never changes an entry's size: for every props record with
\* size defined, the backend's _patch is either not invoked or invoked with
\* props that no longer carry size, and head after the patch reports the size
\* it reported before.
C18_PatchKeepsSize ==
  (last.op = "patch" /\ last.in.props.size # {})
  => /\ Called({"_patch"}) => last.in.sent # {}
     /\ \A sent \in last.in.sent : sent.size = {}
     /\ \A p \in Paths : SizeOf(store, p) = SizeOf(last.pre, p)

C18_Witness ==
  /\ last.op = "patch"
  /\ last.in.props.size = {5}
  /\ Called({"_patch"})
  /\ last.thrown = ""
  /\ last.path = <<"", "a", "b">>
  /\ SizeOf(store, last.path) = {1}

\* a patch of an entry that is there, with nothing in its way: the path is
\* legal, the type asked for (if any) is the entry's, the backend answers, and
\* no hook answers or fails in its place
PlainPatch ==
  /\ last.op = "patch"
  /\ Valid(last.path)
  /\ last.pre[normalizePath(last.path).path].kind # "none"
  /\ last.in.opt.type = "" /\ ~endsWithSlash(last.path)
  /\ ExistenceFromBackend
  /\ ~last.in.env.fault
  /\ "beforePatch" \in cfg.hooks => last.in.env.before = "null"
  /\ "afterPatch" \in cfg.hooks => last.in.env.after = "ok"

\* a setTimes on an entry that is there, the backend not failing
PlainSetTimes ==
  /\ last.op = "setTimes"
  /\ last.pre[last.path].kind # "none"
  /\ ~last.in.fault

\* the modification time the call has to leave
ModifiedAsAsked(p) ==
  store[p].modified = IF last.in.props.modified = {} THEN last.pre[p].modified
                      ELSE CHOOSE t \in last.in.props.modified : TRUE

\* the generic patch drops what cannot be persisted and applies the rest
PatchDropsUnpersistable ==
  PlainPatch
  => /\ last.thrown = "" /\ last.errs = <<>> /\ last.ret = {TRUE}
     /\ Called({"_patch"}) /\ last.in.sent # {}
     /\ \A sent \in last.in.sent :
          /\ sent.created = {}
          /\ sent.accessed = last.in.props.accessed
          /\ sent.modified \in {last.in.props.modified, {}}
     /\ ModifiedAsAsked(normalizePath(last.path).path)

\* the Node backend's setTimes applies the times it is given
SetTimesApplies ==
  PlainSetTimes => last.thrown = "" /\ ModifiedAsAsked(last.path)

\* C19: a patch with a time field the backend cannot persist, or with a time
\* field absent from props, succeeds: the field is removed before the backend
\* primitive is called, the fields that remain are applied, and no error is
\* raised.
C19_UnpersistableTimesDropped ==
  PatchDropsUnpersistable /\ SetTimesApplies

(* copy of a file *)

\* a copy, not a move, without force, of a file onto a file that is there, the
\* backend answering both existence checks
CopyOntoExisting ==
  /\ last.op = "copyFile"
  /\ ~last.in.opt.force /\ ~last.in.opt.move
  /\ last.in.toKind = "file"
  /\ last.pre[last.path].kind = "file"
  /\ last.pre[last.in.to].kind = "file"
  /\ ~last.in.env.h.fault /\ ~last.in.env.th.fault

\* the copy failed as a whole: nothing stored, nothing opened or written on
\* the destination, and the error is of the PathExists kind
RefusedAsExisting ==
  /\ last.thrown = "PathExistError"
  /\ store = last.pre
  /\ ~Called({"_openWriteStream", "_write", "beforePost", "beforePut"})

StreamCopyRefused ==
  CopyOntoExisting /\ last.in.gen = "stream" => RefusedAsExisting

\* C20: copying a file onto an existing destination with onExists = Error
\* (force not set) fails the whole operation and leaves the destination's
\* content unchanged: no write stream is opened on the destination and the
\* reported error kind is PathExists.
C20_CopyOntoExistingFails ==
  CopyOntoExisting => RefusedAsExisting

(* mkcol *)

\* a mkcol of one level only, of a directory whose parent is absent, that no
\* beforeMkcol hook answers in the backend's place
FlatMkcolWithoutParent ==
  /\ last.op = "mkcol"
  /\ ~last.in.opt.recursive
  /\ last.path # Root
  /\ last.pre[getParentPath(last.path)].kind = "none"
  /\ ~last.in.env.h.fault
  /\ Registered(cfg, last.in.opt.ignoreHook, "beforeMkcol") => last.in.env.before = "null"

\* C21: creating a directory non-recursively (mkcol with recursive = false, the
\* default, and the destination mkcol of a directory copy) when the parent
\* directory is absent fails and creates neither the parent nor the target.
C21_FlatMkcolNeedsParent ==
  FlatMkcolWithoutParent
  => /\ last.thrown # ""
     /\ store[getParentPath(last.path)].kind = "none"
     /\ store[last.path].kind = "none"

(* copy and move of a tree *)

\* the nodes of the source tree as they were before the call
SourceNodes == {q \in Subtree(last.path) : last.pre[q].kind # "none"}

\* where a node of the source tree belongs below the destination
Dest(q) == Rebased(q, last.path, last.in.to.path)

\* a copy down the tree (recursive where the option exists), from a handle of
\* the kind of the source, that threw nothing and returned an empty error list
CleanTreeCopy ==
  /\ last.op = "xmitTree" /\ ~last.in.move /\ last.in.opt.recursive
  /\ last.pre[last.path].kind = last.in.kind
  /\ last.thrown = "" /\ last.in.errors = <<>>

\* a copy of a file through streams of its own backend that threw nothing and
\* returned an empty error list
CleanStreamCopy ==
  /\ last.op = "copyFile" /\ last.in.gen = "stream" /\ ~last.in.opt.move
  /\ last.thrown = "" /\ last.errs = <<>>
  /\ ~Called({"beforePost", "beforePut"}) \/ last.in.env.before = "null"

\* the destination mirrors the source and the source is as it was
Mirrored ==
  /\ \A q \in SourceNodes :
       /\ Dest(q) \in Paths
       /\ store[Dest(q)].kind = last.pre[q].kind
       /\ store[Dest(q)].data = last.pre[q].data
  /\ \A q \in Subtree(last.path) : store[q] = last.pre[q]

CurrentCopyMirrors ==
  CleanTreeCopy /\ last.in.gen = "current" => Mirrored

StreamCopyMirrors ==
  CleanStreamCopy
  => /\ store[last.in.to].kind = "file"
     /\ store[last.in.to].data = last.pre[last.path].data
     /\ last.path # last.in.to => store[last.path] = last.pre[last.path]

\* C22: after a copy of a file or of a directory tree with recursive = true
\* that returns no errors, every source file has a destination file at the
\* corresponding path with byte-identical content, every source directory has
\* a destination directory, and the source tree is unchanged.
C22_CopyMirrorsSource ==
  /\ CleanTreeCopy => Mirrored
  /\ StreamCopyMirrors

\* the walk asked the backend for this step
Did(op, path) == \E i \in 1..Len(last.in.log) : last.in.log[i] = Step(op, path)

\* a recursive copy or move of a directory onto a free place, from and to
\* Directory handles, in which no step on the two top-level directories is
\* made to fail
WalkBelowSoundTop ==
  /\ last.op = "xmitTree" /\ last.in.opt.recursive
  /\ last.in.kind = "dir" /\ last.pre[last.path].kind = "dir"
  /\ last.in.to.kind = "dir" /\ last.pre[last.in.to.path].kind = "none"
  /\ last.in.fails \cap {Step("head", last.path), Step("list", last.path),
                         Step("head", last.in.to.path),
                         Step("mkcol", last.in.to.path)} = {}

\* a step below the top level was made to fail, and the walk came to it
ChildFailed == \E f \in last.in.fails : Did(f.op, f.path)

\* every child of every directory the walk listed was taken up
AllChildrenTaken ==
  \A d \in SourceNodes :
    Did("list", d) /\ Step("list", d) \notin last.in.fails
    => \A child \in Children(last.pre, d) : Did("head", child)

FaultIsolated ==
  WalkBelowSoundTop
  => /\ last.thrown = ""
     /\ ChildFailed => last.in.errors # <<>>
     /\ AllChildrenTaken

CurrentWalkIsolated ==
  last.op = "xmitTree" /\ last.in.gen = "current" => FaultIsolated

\* C23: in a recursive directory copy/move, a failure while processing one
\* child (in its head, handle construction, copy or delete) is appended to the
\* shared error list and does not abort the walk: every other child of the
\* same directory is still processed.
C23_ChildFailureIsolated ==
  last.op = "xmitTree" => FaultIsolated

\* every node of the source tree is at its place below the destination and,
\* for a move, gone from the source
FullyTransferred ==
  /\ \A q \in SourceNodes :
       /\ store[Dest(q)].kind = last.pre[q].kind
       /\ store[Dest(q)].data = last.pre[q].data
  /\ last.in.move => \A q \in Subtree(last.path) : store[q].kind = "none"

\* nothing is thrown for what happens below the top level, and the list tells
\* whether the whole tree went over
ListTellsAll ==
  WalkBelowSoundTop
  => /\ last.thrown = ""
     /\ last.in.errors = <<>> <=> FullyTransferred

CurrentListTellsAll ==
  last.op = "xmitTree" /\ last.in.gen = "current" => ListTellsAll

\* C24: copy and move throw only for failures in validating the top-level
\* from/to arguments; every per-node failure below the top level is returned
\* in the error list, and the returned list is empty if and only if every node
\* of the source tree was fully copied (and, for move, deleted).
C24_ErrorListIsComplete ==
  last.op = "xmitTree" => ListTellsAll

\* a move down the tree onto a free place, between handles of the kind of the
\* source, in which no step of the backend is made to fail
UnfailingTreeMove ==
  /\ last.op = "xmitTree" /\ last.in.move
  /\ last.in.fails = {}
  /\ last.pre[last.path].kind = last.in.kind
  /\ last.in.to.kind = last.in.kind
  /\ last.pre[last.in.to.path].kind = "none"

\* move on a handle of the current core, the copy done, the backend and the
\* hooks of the delete leaving it alone
UnfailingEntryMove ==
  /\ last.op = "move" /\ last.in.copies
  /\ last.pre[last.path].kind = last.in.kind
  /\ last.in.env.h = Benign
  /\ last.in.env.fault = "none"
  /\ Registered(cfg, last.in.opt.ignoreHook, "beforeDelete") => last.in.env.before = "null"
  /\ Registered(cfg, last.in.opt.ignoreHook, "afterDelete") => last.in.env.after = "ok"

\* move of a file through streams onto a free place, nothing failing and no
\* hook handing a stream of its own
UnfailingStreamMove ==
  /\ last.op = "copyFile" /\ last.in.gen = "stream" /\ last.in.opt.move
  /\ last.in.toKind = "file"
  /\ last.pre[last.path].kind = "file" /\ last.pre[last.in.to].kind = "none"
  /\ last.in.env.fault = "none" /\ last.in.env.before = "null"
  /\ last.in.env.h = Benign /\ last.in.env.th = Benign

\* the source is gone with all below it, the destination holds what it held
MovedTo(to) ==
  /\ \A q \in Subtree(last.path) : store[q].kind = "none"
  /\ \A q \in SourceNodes :
       /\ store[Rebased(q, last.path, to)].kind = last.pre[q].kind
       /\ store[Rebased(q, last.path, to)].data = last.pre[q].data

EntryMoveMoves ==
  UnfailingEntryMove
  => last.thrown = "" /\ last.errs = <<>> /\ last.ret = {TRUE} /\ MovedTo(last.in.to)

StreamMoveMoves ==
  UnfailingStreamMove => last.thrown = "" /\ last.errs = <<>> /\ MovedTo(last.in.to)

\* C25: after a move(from, to) in which no backend operation fails, from is
\* absent (a moved file is gone; a moved directory is gone together with all
\* its descendants) and to holds the moved content; this holds for a top-level
\* file as well as for a top-level directory.
C25_MoveRemovesSource ==
  /\ UnfailingTreeMove => last.thrown = "" /\ MovedTo(last.in.to.path)
  /\ EntryMoveMoves
  /\ StreamMoveMoves

\* the node whose delete the backend was made to fail, in a move of core.ts
\* that came to it
FailedDeleteInWalk(p) ==
  /\ last.op = "xmitTree" /\ last.in.move
  /\ last.in.fails = {Step("delete", p)}
  /\ Did("delete", p)

\* the transfer of core.ts puts a directory at the destination, and of a file
\* what the backend leaves of an unwritten stream
PutThere(p) == last.pre[p].kind = "dir" \/ last.in.unwritten = "empty"

\* a move of a file through streams whose closing delete the backend fails
FailedDeleteInStreamMove ==
  /\ last.op = "copyFile" /\ last.in.gen = "stream" /\ last.in.opt.move
  /\ last.in.env.fault = "delete" /\ last.in.env.before = "null"
  /\ Called({"_delete"})

\* a move on a handle of the current core whose delete, after the copy, fails
\* in the backend
FailedDeleteInEntryMove ==
  /\ last.op = "move" /\ last.in.copies
  /\ last.in.env.fault = "throw"
  /\ Called({"_delete"})

\* the source node is still there, and so is what the copy put below "to"
KeptBoth(p, to) ==
  /\ store[p].kind = last.pre[p].kind
  /\ store[Rebased(p, last.path, to)].kind = last.pre[p].kind

CrossKindTransfer ==
  /\ last.op = "xmitTree"
  /\ last.in.kind # last.in.to.kind
  /\ last.pre[last.path].kind = last.in.kind
  /\ Step("head", last.path) \notin last.in.fails

\* refused as an illegal modification with the destination untouched: nothing
\* created, no stream opened
RefusedUntouched ==
  /\ last.thrown = "InvalidModificationError"
  /\ store = last.pre
  /\ \A i \in 1..Len(last.in.log) :
       last.in.log[i].op \notin {"mkcol", "read", "open", "write"}

CoreCrossKindRefused ==
  CrossKindTransfer /\ last.in.gen = "core" => RefusedUntouched

\* C27: copying or moving a directory onto a file handle, or a file onto a
\* directory handle, fails with an error of kind InvalidModification before
\* any destination directory is created or any stream is opened.
C27_CrossKindIsInvalidModification ==
  CrossKindTransfer => RefusedUntouched


----------------------------------------------------------------------------
(* Streams *)

\* t brought into [lo, hi]
Clamp(t, lo, hi) == IF t < lo THEN lo ELSE IF hi < t THEN hi ELSE t

\* a seek whose head the backend answered: the size is that of the file
SeekDone ==
  /\ last.op = "streamSeek"
  /\ last.thrown \in {"", "NativeError"}
  /\ last.in.henv.before = "null" \/ "beforeHead" \notin cfg.hooks

SeekSize == Len(store[last.path].data)

SeekTarget ==
  IF last.in.origin = "Begin" THEN last.in.offset
  ELSE IF last.in.origin = "Current" THEN last.in.before.position + last.in.offset
  ELSE SeekSize + last.in.offset

\* C28: after seek(offset, origin), for any offset and any of the three
\* origins, the position is the target (offset, position + offset or
\* size + offset) clamped into [0, size], so that 0 <= position <= size.
C28_SeekClampsPosition ==
  SeekDone =>
    /\ stream.position = Clamp(SeekTarget, 0, SeekSize)
    /\ 0 <= stream.position /\ stream.position <= SeekSize

\* a seek beyond the end of a file that has bytes, from a position that is not 0
C28_Witness ==
  /\ SeekDone
  /\ last.in.origin = "Current"
  /\ last.in.before.position > 0
  /\ SeekSize < SeekTarget
  /\ stream.position = SeekSize

\* a seek to before the start lands on 0
SeekBeforeStart ==
  SeekDone /\ last.in.origin = "End" /\ SeekSize > 0 /\ SeekTarget < 0
  /\ stream.position = 0

\* a write stream that was closed once
ClosedOnce == stream.mode = "write" /\ stream.closes = 1

\* the after hooks of a write are registered and the stream does not ignore them
WriteHooksHeard == {"afterPost", "afterPut"} \subseteq cfg.hooks /\ ~stream.ignoreHook

NotifiedOnChange ==
  /\ stream.writes = 0 => stream.fired = <<>>
  /\ stream.writes > 0 /\ WriteHooksHeard =>
       stream.fired = <<IF stream.create THEN "afterPost" ELSE "afterPut">>

\* C29: a write stream opened and closed without a successful write or truncate
\* fires neither afterPost nor afterPut; closed after at least one it fires
\* exactly one: afterPost when opened in create mode, afterPut otherwise.
C29_WriteNotifiedOnChange == ClosedOnce => NotifiedOnChange

\* the streams that notify at their close (AbstractWriteStream, WriteStream of
\* core.ts) do so
ClosingStreamsNotifyOnChange ==
  ClosedOnce /\ stream.gen \in {"abstract", "core"} => NotifiedOnChange

\* such a stream closed after a write, with the hooks heard
ClosedAfterWrite ==
  ClosedOnce /\ stream.gen \in {"abstract", "core"} /\ stream.writes > 0
  /\ WriteHooksHeard

\* a close that returned on a stream closed before
SecondClose ==
  /\ last.op = "streamClose"
  /\ last.thrown = ""
  /\ last.in.before.closes >= 1

\* C30: close is idempotent: a second close has no further observable effect,
\* it fires no further afterPost, afterPut or afterGet, and close is safe on
\* a stream that saw no I/O.
C30_CloseIsIdempotent ==
  /\ SecondClose => stream.fired = last.in.before.fired /\ store = last.pre
  /\ last.op = "streamClose" /\ last.in.before.writes = 0 /\ ~last.in.fault =>
       last.thrown = ""

\* close on a write stream that saw no I/O returns and fires nothing, the
\* first time and again
CloseWithoutIOIsQuiet ==
  /\ last.op = "streamClose"
  /\ stream.mode = "write" /\ stream.gen \in {"abstract", "core"}
  /\ last.in.before.writes = 0 /\ ~last.in.fault
  => last.thrown = "" /\ stream.fired = <<>>

\* a second close of a write stream that saw no I/O
SecondQuietClose ==
  SecondClose /\ stream.mode = "write" /\ stream.gen \in {"abstract", "core"}
  /\ stream.writes = 0

----------------------------------------------------------------------------
(* Paths *)

\* a normalized path: a leading separator, then names, no "." or "..", no
\* empty segment, and no separator at the end unless it is "/" itself
IsNormal(p) ==
  \/ p = <<"", "">>
  \/ /\ Len(p) >= 2
     /\ p[1] = ""
     /\ \A i \in 2..Len(p) : p[i] \notin {"", ".", ".."}

\* C31: normalizePath is idempotent, and where it does not throw its result
\* starts with '/', has no '.' or '..' segment, no empty segment and no
\* trailing separator unless it is '/'; '' and '/' both normalize to '/'.
C31_NormalizeIsIdempotent ==
  /\ last.op = "normalizePath" /\ last.thrown = "" =>
       /\ \A p \in last.ret : IsNormal(p)
       /\ last.path \in {<<"">>, <<"", "">>} => last.ret = {<<"", "">>}
  /\ last.op = "normalizeAgain" => last.thrown = "" /\ last.ret = {last.path}

\* "a//../b" was normalized to "/b", and "/b" again to "/b"
C31_Witness ==
  /\ last.op = "normalizeAgain"
  /\ last.in.first = <<"a", "", "..", "b">>
  /\ last.ret = {<<"", "b">>}

----------------------------------------------------------------------------
(* Classification of backend failures *)

\* fs.rm or fs.utimes of the Node backend failed
NodeWriteFailed ==
  /\ last.op \in {"rm", "setTimes"}
  /\ last.calls # <<>>
  /\ last.thrown # ""

\* the kind the taxonomy gives a write-side failure
WriteFailureKind ==
  IF ~last.in.fault /\ last.pre[last.path].kind = "none" THEN "NotFoundError"
  ELSE "NoModificationAllowedError"

\* the entry's _delete failed in a delete that got as far
EntryDeleteFailed ==
  /\ last.op = "delete"
  /\ Has(last.calls, "_delete")
  /\ last.in.env.fault = "throw"

\* C32: every backend failure is classified into exactly one kind: an absent
\* path gives NotFound, any other read-side failure NotReadable, any other
\* write-side I/O failure NoModificationAllowed.
C32_BackendFailureClassified ==
  /\ NodeWriteFailed => last.thrown = WriteFailureKind
  /\ EntryDeleteFailed =>
       \/ last.thrown = "NoModificationAllowedError"
       \/ last.errs = <<"NoModificationAllowedError">>

\* AbstractEntry.delete classifies the failure of _delete as claimed
EntryDeleteClassified ==
  EntryDeleteFailed =>
    \/ last.thrown = "NoModificationAllowedError"
    \/ last.errs = <<"NoModificationAllowedError">>

\* the Node backend classifies an absent path as claimed
NodeAbsentClassified ==
  NodeWriteFailed /\ ~last.in.fault /\ last.pre[last.path].kind = "none" =>
    last.thrown = "NotFoundError"

----------------------------------------------------------------------------
(* Move loses no data *)

\* the files of the source tree as they were before the call
SourceFiles == {q \in Subtree(last.path) : last.pre[q].kind = "file"}

\* the bytes the source file q held are in the file at p
ContentAt(q, p) ==
  p \in Paths /\ store[p].kind = "file" /\ store[p].data = last.pre[q].data

\* every source file's bytes are at its place or at its place below "to"
NoDataLost(to) ==
  \A q \in SourceFiles : ContentAt(q, q) \/ ContentAt(q, Rebased(q, last.path, to))

\* a move down the tree to another place, from a handle of the kind of the source
TreeMove ==
  /\ last.op = "xmitTree" /\ last.in.move /\ last.pre[last.path].kind = last.in.kind
  /\ last.in.to.path # last.path

\* a move on a handle of the current core, or of a file through streams of its
\* own backend to another place
HandleMove ==
  \/ last.op = "move" /\ last.pre[last.path].kind = last.in.kind
  \/ last.op = "copyFile" /\ last.in.gen = "stream" /\ last.in.opt.move
     /\ last.pre[last.path].kind = "file"
     /\ last.in.env.before = "null"
     /\ last.in.to # last.path

\* C33: during a move a source node is deleted only after it and all its
\* descendants were copied; every source file's content is at its source path
\* or at its destination path, so that no data is lost when a copy step fails.
C33_MoveLosesNoData ==
  /\ TreeMove => NoDataLost(last.in.to.path)
  /\ HandleMove => NoDataLost(last.in.to)

\* move of the current core's handle: the delete follows a copy that succeeded
EntryMoveLosesNoData ==
  last.op = "move" /\ last.pre[last.path].kind = last.in.kind => NoDataLost(last.in.to)

\* a move in which a source file was deleted
SourceFileDeleted ==
  \E q \in SourceFiles : store[q].kind = "none"

\* a move of a file through streams loses no data
StreamMoveLosesNoData ==
  last.op = "copyFile" /\ HandleMove => NoDataLost(last.in.to)

----------------------------------------------------------------------------
(* Streams of a file copy *)

\* a stream that was opened and whose close() has not completed
Unclosed(f) == tasks[f] \in {"open", "closing"}

\* _xmit has delivered its result
CopyDelivered == tasks.out # ""

\* C34: in a file copy every stream that was opened is closed before the copy
\* returns or throws, the read stream also when the destination's check or
\* the opening of the write stream fails; close completes before the result
\* is delivered.
C34_StreamsClosedBeforeResult ==
  CopyDelivered => ~Unclosed("rs") /\ ~Unclosed("ws")

\* close() is called on every opened stream before the result is delivered
CloseCalledBeforeResult ==
  CopyDelivered => tasks.rs # "open" /\ tasks.ws # "open"

\* AbstractFile.ts awaits both closes
AwaitedCopyClosesStreams ==
  CopyDelivered /\ tasks.gen = "stream" => ~Unclosed("rs") /\ ~Unclosed("ws")

\* the write stream failed to open and the copy threw with the read stream closed
ReadStreamClosedOnFailure ==
  /\ tasks.gen = "stream" /\ tasks.out = "thrown"
  /\ tasks.err = "NoModificationAllowedError"
  /\ tasks.rs = "closed" /\ tasks.ws = "none"

----------------------------------------------------------------------------
(* Termination of a walk *)

\* every node the walk visited was in the source tree when the walk began, and
\* none was visited twice
VisitsSourceOnce ==
  /\ \A i \in 1..Len(tasks.seen) : tasks.seen[i] \in tasks.source
  /\ \A i, j \in 1..Len(tasks.seen) : i # j => tasks.seen[i] # tasks.seen[j]

\* C35: a recursive copy or move of a finite tree terminates for every
\* destination, one inside the source tree included: the walk visits each
\* source node at most once.
C35_WalkVisitsSourceOnce == VisitsSourceOnce

\* with the destination beside the source the walk visits each node once
WalkBesideVisitsOnce ==
  ~Within(tasks.to, <<"a">>) => VisitsSourceOnce

\* the walk to a destination beside the source has returned, all nodes visited
WalkBesideDone ==
  /\ ~Within(tasks.to, <<"a">>)
  /\ tasks.stack = <<>>
  /\ Len(tasks.seen) = Cardinality(tasks.source)

\* a walk into the source has returned
WalkInsideDone == Within(tasks.to, <<"a">>) /\ tasks.stack = <<>>

----------------------------------------------------------------------------
(* Calls in flight on one path *)

\* call i has reached the backend's primitive
AtBackend(i) == tasks.calls[i].mode # {}

\* call i found the path absent at its check and was to create it
CreatesIfAbsent(i) ==
  tasks.calls[i].pc # "head" /\ tasks.calls[i].create /\ tasks.calls[i].opt # "false"

\* C36: two concurrent create-if-absent writes (or write-stream opens) on the
\* same absent path are not serialized: both can pass the existence check
\* before either reaches the backend, both then reach the backend's primitive
\* in create mode and both fire beforePost; the backend alone decides.
C36_CreatesNotSerialized ==
  \A i \in {1, 2} :
    /\ CreatesIfAbsent(i) /\ AtBackend(i) =>
         /\ tasks.calls[i].mode = {TRUE}
         /\ "beforePost" \in cfg.hooks => tasks.calls[i].fired[1] = "beforePost"
    /\ tasks.calls[i].pc = "head" => ENABLED raceHead

\* both calls found the path absent, both fired beforePost and both went to
\* the backend in create mode, the second on a file that the first had made
C36_Witness ==
  /\ \A i \in {1, 2} :
       /\ CreatesIfAbsent(i) /\ AtBackend(i)
       /\ tasks.calls[i].mode = {TRUE}
       /\ tasks.calls[i].fired # <<>> /\ tasks.calls[i].fired[1] = "beforePost"
  /\ tasks.calls[1].kind = "write" /\ tasks.calls[2].kind = "write"
  /\ store[tasks.path] = FileOf(<<"y">>)
  /\ tasks.calls[1].out = "returned" /\ tasks.calls[2].out = "returned"

\* what the primitive of call i produced at the path
Produced(i) == FileOf(tasks.calls[i].src)

\* the after hook of call i has looked at the path
Observed(i) == tasks.calls[i].saw # {}

\* C37: an after notification, the afterPost/afterPut/afterGet ones that are
\* not awaited included, observes the state produced by the primitive it
\* follows: no other operation on the path takes effect in between.
C37_AfterSeesItsPrimitive ==
  \A i \in {1, 2} : Observed(i) => tasks.calls[i].saw = {Produced(i)}

\* an after hook sees the state of its primitive when no other call has gone
\* to the backend by then
AfterAloneSeesItsPrimitive ==
  \A i \in {1, 2} :
    Observed(i) /\ ~AtBackend(3 - i) => tasks.calls[i].saw = {Produced(i)}

\* an after hook has looked while the other call had not reached the backend
ObservedAlone == \E i \in {1, 2} : Observed(i) /\ ~AtBackend(3 - i)

\* the smaller of two numbers
Least(a, b) == IF a <= b THEN a ELSE b

\* a write or a truncate on an AbstractWriteStream
PositionMoved ==
  /\ last.op \in {"streamWrite", "streamTruncate"}
  /\ last.in.before.gen = "abstract"

\* C38: on a write stream, after any sequence of writes and truncates the
\* position is the reference value: each write adds the byte count it
\* returned, each truncate(size) takes min(position, size); a failed write
\* or truncate leaves the position and the changed flag as they were.
C38_PositionFollowsReference ==
  PositionMoved =>
    /\ last.thrown = "" /\ last.op = "streamWrite" =>
         /\ stream.position = last.in.before.position + Len(last.in.src)
         /\ stream.changed
    /\ last.thrown = "" /\ last.op = "streamTruncate" =>
         /\ stream.position = Least(last.in.before.position, last.in.size)
         /\ stream.changed
    /\ last.thrown # "" =>
         /\ stream.position = last.in.before.position
         /\ stream.changed = last.in.before.changed

\* a truncate below the position that two written bytes had brought to 2
C38_Witness ==
  /\ PositionMoved /\ last.op = "streamTruncate" /\ last.thrown = ""
  /\ last.in.before.position = 2 /\ last.in.size = 1
  /\ stream.position = 1

\* a write failed on a stream that nothing had changed yet
FailedFirstWrite ==
  /\ PositionMoved /\ last.op = "streamWrite" /\ last.thrown # ""
  /\ ~stream.changed /\ stream.position = 0

----------------------------------------------------------------------------
(* Paths handed to the backend *)

\* the normalized form of the caller's path
NormalOf(path) == normalizePath(path).path

\* the path a FileSystem operation handed to its primitive, where the result
\* shows it: the path of the handle _getFile and _getDirectory built, and the
\* path _toURL was given
HandedPath ==
  IF last.ret = {} THEN {}
  ELSE IF last.op \in {"getFile", "getDirectory", "toURL"}
    THEN {(CHOOSE x \in last.ret : TRUE).path}
  ELSE {}

\* C39: every path that head, patch, getFile, getDirectory and toURL hand to
\* a backend primitive is the normalized form of the caller's path
C39_BackendPathsNormalized ==
  \A p \in HandedPath : p = NormalOf(last.path)

\* getFile and getDirectory build their handle on the normalized path
HandlePathsNormalized ==
  last.op \in {"getFile", "getDirectory"} =>
    \A p \in HandedPath : p = NormalOf(last.path) /\ IsNormal(p)

\* the Stats _head answered with are those of the entry at the normalized path
HeadAsksNormalized ==
  (/\ last.op = "head" /\ last.ret # {} /\ Has(last.calls, "_head")) =>
    last.ret = B_head(last.pre, NormalOf(last.path), FALSE).stats

\* _patch changes the entry at the normalized path and no other
PatchHandsNormalized ==
  (last.op = "patch" /\ Has(last.calls, "_patch")) =>
    \A q \in Paths : q # NormalOf(last.path) => store[q] = last.pre[q]

\* a head that asked the backend about a path given with a trailing separator
HeadOfRawPath ==
  /\ last.op = "head" /\ last.ret # {} /\ Has(last.calls, "_head")
  /\ last.path # NormalOf(last.path)

\* a URL asked for a path that is not in normal form
URLOfRawPath ==
  /\ last.op = "toURL" /\ HandedPath # {}
  /\ last.path # NormalOf(last.path)

----------------------------------------------------------------------------
(* The caller's list of errors *)

\* the operations of the model that take the caller's list
ListedOps ==
  {"head", "getFile", "getDirectory", "toURL", "patch", "delete", "fsDelete", "move"}

\* the call gave false or null
GaveNothing == last.ret \subseteq {FALSE}

\* with a list nothing is thrown and a failure is in the list beside a false
\* or null result; without one nothing is collected
ListTakesFailures(ops) ==
  last.op \in ops =>
    /\ last.in.eg => last.thrown = "" /\ (last.errs # <<>> => GaveNothing)
    /\ ~last.in.eg => last.errs = <<>>

\* the entry's delete failed inside AbstractFileSystem.delete
FsDeleteEntryFailed ==
  /\ last.op = "fsDelete" /\ last.in.eg
  /\ Has(last.calls, "_delete") /\ last.in.env.fault = "throw"

\* C40: a failure of an operation called with a list of errors is appended to
\* the list and the call gives false or null without throwing, the same
\* failure is thrown when there is no list, and FileSystem.delete with a list
\* never throws for a failure of the entry's delete
C40_ErrorsListTakesFailures ==
  /\ ListTakesFailures(ListedOps)
  /\ FsDeleteEntryFailed => last.thrown = "" /\ Len(last.errs) = 1 /\ GaveNothing

\* head and toURL keep to the list
HeadKeepsToList == ListTakesFailures({"head", "toURL"})

\* so does the delete of an entry
EntryDeleteKeepsToList == ListTakesFailures({"delete"})

\* getFile, getDirectory and patch keep to the list for a path that normalizes
CheckedPathKeepsToList ==
  normalizePath(last.path).err = "" =>
    ListTakesFailures({"getFile", "getDirectory", "patch"})

\* a failure of the entry's delete went into the list of Entry.delete
EntryDeleteListed ==
  /\ last.op = "delete" /\ last.in.eg /\ Has(last.calls, "_delete")
  /\ last.in.env.fault = "throw" /\ Len(last.errs) = 1 /\ last.ret = {FALSE}

\* FileSystem.delete, given a list, threw the failure of the entry's delete
FsDeleteThrew ==
  FsDeleteEntryFailed /\ last.thrown = "NoModificationAllowedError" /\ last.errs = <<>>
====
